---- MODULE Spec2Model ----
(***************************************************************************)
(* Model of the clickhouse-client value model and wire codecs:             *)
(*   - the Type descriptor grammar (value/ty/mod.rs),                      *)
(*   - Value and is_same_type_as (value/mod.rs),                           *)
(*   - the RowBinary codec (query/fmt/rowbin/mod.rs),                      *)
(*   - the TabSeparated codec (query/fmt/tab/mod.rs),                      *)
(*   - the QueryData table (query/data.rs).                                *)
(*                                                                         *)
(* Strings are sequences of byte codes (the UTF-8 bytes of ASCII text), so *)
(* that formatting and parsing are computed character by character.        *)
(* A Rust Result is [ok |-> TRUE, ...] / [ok |-> FALSE, panic |-> b]: a    *)
(* panic (unwrap, unimplemented!, index out of bounds, debug assertion) is *)
(* an outcome distinct from a returned Err.                                *)
(***************************************************************************)
EXTENDS Integers, Sequences, FiniteSets, TLC

VARIABLES
    pc,                \* position of the running call sequence
    arg,               \* the input of the call sequence
    wire,              \* the serialized text / bytes
    res,               \* the result of the last parse / decode
    table,             \* the QueryData under construction
    debug_assertions,  \* cfg(debug_assertions) of the build
    outcome            \* outcome of the last QueryData operation

vars == <<pc, arg, wire, res, table, debug_assertions, outcome>>

Null == [null |-> TRUE]

(***************************************************************************)
(* Strings: byte codes, and string literals                                *)
(***************************************************************************)
AsciiLo == " !\"#$%&'()*+,-./0123456789:;<=>?@ABCDEFGHIJKLMNOPQRSTUVWXYZ[\\]^_"
AsciiHi == "abcdefghijklmnopqrstuvwxyz{|}~"

\* the byte code of a one-character literal
Ord(c) ==
    IF \E i \in 1..Len(AsciiLo) : SubSeq(AsciiLo, i, i) = c
    THEN 31 + (CHOOSE i \in 1..Len(AsciiLo) : SubSeq(AsciiLo, i, i) = c)
    ELSE 96 + (CHOOSE i \in 1..Len(AsciiHi) : SubSeq(AsciiHi, i, i) = c)

\* the bytes of a string literal (String::as_bytes)
S(str) == [i \in 1..Len(str) |-> Ord(SubSeq(str, i, i))]

chTab == 9
chNewline == 10
chSpace == 32
chQuote == 39
chComma == 44
chColon == 58
chEquals == 61
chBackslash == 92
NanosPerSecond == 1000000000

Ok(v) == [ok |-> TRUE, val |-> v]
Err == [ok |-> FALSE, panic |-> FALSE]
Panic == [ok |-> FALSE, panic |-> TRUE]

\* Option<T>: None is <<>>, Some(x) is <<x>>
None == <<>>
Some(x) == <<x>>

Drop(s, n) == SubSeq(s, n + 1, Len(s))
Take(s, n) == SubSeq(s, 1, n)

\* str::starts_with / the test of str::strip_prefix
StartsWith(s, p) == Len(s) >= Len(p) /\ Take(s, Len(p)) = p

\* str::strip_suffix(char) succeeded
EndsWithChar(s, c) == Len(s) >= 1 /\ s[Len(s)] = c

\* index of the first c in s, or 0
RECURSIVE FindChar(_, _, _)
FindChar(s, c, i) ==
    IF i > Len(s) THEN 0
    ELSE IF s[i] = c THEN i
    ELSE FindChar(s, c, i + 1)

\* str::split(char): always at least one piece
RECURSIVE Split(_, _)
Split(s, c) ==
    LET i == FindChar(s, c, 1) IN
    IF i = 0 THEN <<s>>
    ELSE <<Take(s, i - 1)>> \o Split(Drop(s, i), c)

\* char::is_whitespace on ASCII
IsWhitespace(c) == c \in {9, 10, 11, 12, 13, 32}

RECURSIVE TrimStart(_)
TrimStart(s) ==
    IF Len(s) > 0 /\ IsWhitespace(s[1]) THEN TrimStart(Drop(s, 1)) ELSE s

RECURSIVE TrimEnd(_)
TrimEnd(s) ==
    IF Len(s) > 0 /\ IsWhitespace(s[Len(s)]) THEN TrimEnd(Take(s, Len(s) - 1)) ELSE s

\* str::trim
Trim(s) == TrimEnd(TrimStart(s))

RECURSIVE TrimStartMatches(_, _)
TrimStartMatches(s, c) ==
    IF Len(s) > 0 /\ s[1] = c THEN TrimStartMatches(Drop(s, 1), c) ELSE s

RECURSIVE TrimEndMatches(_, _)
TrimEndMatches(s, c) ==
    IF Len(s) > 0 /\ s[Len(s)] = c THEN TrimEndMatches(Take(s, Len(s) - 1), c) ELSE s

\* str::replace: non-overlapping matches of a non-empty pattern, left to right
RECURSIVE Replace(_, _, _)
Replace(s, pat, rep) ==
    IF Len(s) = 0 THEN <<>>
    ELSE IF StartsWith(s, pat) THEN rep \o Replace(Drop(s, Len(pat)), pat, rep)
    ELSE <<s[1]>> \o Replace(Drop(s, 1), pat, rep)

\* [String]::join
RECURSIVE Join(_, _)
Join(parts, sep) ==
    IF Len(parts) = 0 THEN <<>>
    ELSE IF Len(parts) = 1 THEN parts[1]
    ELSE parts[1] \o sep \o Join(Tail(parts), sep)

\* Ord for String: byte-wise lexicographic order
RECURSIVE StrLess(_, _)
StrLess(a, b) ==
    IF Len(b) = 0 THEN FALSE
    ELSE IF Len(a) = 0 THEN TRUE
    ELSE IF a[1] # b[1] THEN a[1] < b[1]
    ELSE StrLess(Tail(a), Tail(b))

(***************************************************************************)
(* Integers as decimal text                                                *)
(***************************************************************************)
RECURSIVE NatToString(_)
NatToString(n) ==
    IF n < 10 THEN <<48 + n>>
    ELSE NatToString(n \div 10) \o <<48 + (n % 10)>>

\* Display for the integer types
IntToString(n) == IF n < 0 THEN <<45>> \o NatToString(-n) ELSE NatToString(n)

IsDigit(c) == c >= 48 /\ c <= 57

RECURSIVE DigitsValue(_, _)
DigitsValue(s, acc) ==
    IF Len(s) = 0 THEN acc ELSE DigitsValue(Tail(s), 10 * acc + (s[1] - 48))

\* <int>::from_str: optional sign ('-' only for signed types), at least one
\* digit, only digits, value within [lo, hi]
ParseInt(s, lo, hi) ==
    LET signed == lo < 0
        hasSign == Len(s) > 0 /\ (s[1] = 43 \/ (signed /\ s[1] = 45))
        neg == hasSign /\ s[1] = 45
        digits == IF hasSign THEN Tail(s) ELSE s
    IN  IF Len(digits) = 0 \/ \E i \in 1..Len(digits) : ~IsDigit(digits[i]) THEN Err
        ELSE LET v == IF neg THEN -DigitsValue(digits, 0) ELSE DigitsValue(digits, 0)
             IN  IF v < lo \/ v > hi THEN Err ELSE Ok(v)

\* DateTime64: "Precision [0:9] defines the resolution"
MaxPrecision == 9
U8Max == 255
I8Min == -128
I8Max == 127
U16Max == 65535
I16Min == -32768
I16Max == 32767

(***************************************************************************)
(* Type (value/ty/mod.rs).  A Type is a record with a tag and the fields   *)
(* of its variant: Decimal [p, s], Decimal32.. [s], FixedString [n],       *)
(* DateTime64 [p], Enum8/16 [variants], Array [elem], Tuple [types],       *)
(* Map [key, val], Nested [fields]; a Nullable variant has the tag         *)
(* "Nullable" \o <tag> and the same fields.  A BTreeMap<String, int> is a  *)
(* sequence of <<name, index>> in strictly increasing name order.          *)
(***************************************************************************)
ScalarNames ==
    {"UInt8", "UInt16", "UInt32", "UInt64", "UInt128", "UInt256",
     "Int8", "Int16", "Int32", "Int64", "Int128", "Int256",
     "Float32", "Float64", "Bool", "String", "UUID", "Date", "Date32", "DateTime"}

DecimalNNames == {"Decimal32", "Decimal64", "Decimal128", "Decimal256"}

\* the variants that have a Nullable counterpart
NullableEligible ==
    ScalarNames \union DecimalNNames
        \union {"Decimal", "FixedString", "DateTime64", "Enum8", "Enum16"}

NullableNames == {"Nullable" \o n : n \in NullableEligible}

ScalarStr == [n \in ScalarNames |-> S(n)]

IsNullableType(t) == t.tag \in NullableNames

\* NullableX -> X, keeping the variant's fields
NonNullableType(t) == [t EXCEPT !.tag = SubSeq(t.tag, 9, Len(t.tag))]

\* X -> NullableX, keeping the variant's fields
AsNullableType(t) == [t EXCEPT !.tag = "Nullable" \o t.tag]

kwOpen == S("(")
kwClose == S(")")
kwSep == S(", ")
kwDecimal == S("Decimal(")
kwDecimal32 == S("Decimal32(")
kwDecimal64 == S("Decimal64(")
kwDecimal128 == S("Decimal128(")
kwDecimal256 == S("Decimal256(")
kwFixedString == S("FixedString(")
kwDateTime64 == S("DateTime64(")
kwEnum8 == S("Enum8(")
kwEnum16 == S("Enum16(")
kwEnum == S("Enum(")
kwArray == S("Array(")
kwTuple == S("Tuple(")
kwMap == S("Map(")
kwNested == S("Nested(")
kwNullable == S("Nullable(")

\* "'key' = idx" for every entry of an enum, in map order
EnumEntriesToString(variants) ==
    [i \in 1..Len(variants) |->
        <<chQuote>> \o variants[i][1] \o <<chQuote>> \o S(" = ")
            \o IntToString(variants[i][2])]

\* impl Display for Type
RECURSIVE TypeToString(_)
TypeToString(t) ==
    IF t.tag \in ScalarNames THEN ScalarStr[t.tag]
    ELSE IF t.tag = "Decimal" THEN
        kwDecimal \o NatToString(t.p) \o <<chComma>> \o NatToString(t.s) \o kwClose
    ELSE IF t.tag \in DecimalNNames THEN
        S(t.tag) \o kwOpen \o NatToString(t.s) \o kwClose
    ELSE IF t.tag = "FixedString" THEN kwFixedString \o NatToString(t.n) \o kwClose
    ELSE IF t.tag = "DateTime64" THEN kwDateTime64 \o NatToString(t.p) \o kwClose
    ELSE IF t.tag \in {"Enum8", "Enum16"} THEN
        S(t.tag) \o kwOpen \o Join(EnumEntriesToString(t.variants), kwSep) \o kwClose
    ELSE IF t.tag = "Array" THEN kwArray \o TypeToString(t.elem) \o kwClose
    ELSE IF t.tag = "Map" THEN
        kwMap \o TypeToString(t.key) \o kwSep \o TypeToString(t.val) \o kwClose
    ELSE IF t.tag = "Tuple" THEN
        kwTuple
            \o Join([i \in 1..Len(t.types) |-> TypeToString(t.types[i])], kwSep)
            \o kwClose
    ELSE IF t.tag = "Nested" THEN
        kwNested
            \o Join([i \in 1..Len(t.fields) |->
                        t.fields[i][1] \o <<chSpace>> \o TypeToString(t.fields[i][2])],
                    kwSep)
            \o kwClose
    ELSE \* the Nullable variants
        kwNullable \o TypeToString(NonNullableType(t)) \o kwClose

\* BTreeMap::insert on the sorted association list
RECURSIVE BTreeInsert(_, _, _)
BTreeInsert(map, k, v) ==
    IF Len(map) = 0 THEN <<<<k, v>>>>
    ELSE IF map[1][1] = k THEN <<<<k, v>>>> \o Tail(map)
    ELSE IF StrLess(k, map[1][1]) THEN <<<<k, v>>>> \o map
    ELSE <<map[1]>> \o BTreeInsert(Tail(map), k, v)

\* the "Name(<int>)" types: the text after the prefix must end with ')' and
\* hold one u8
ParseU8Arg(rest, Mk(_)) ==
    IF ~EndsWithChar(rest, 41) THEN Err
    ELSE LET n == ParseInt(Trim(Take(rest, Len(rest) - 1)), 0, U8Max)
         IN  IF n.ok THEN Ok(Mk(n.val)) ELSE Err

\* "Decimal(P, S)"
ParseDecimal(rest) ==
    IF ~EndsWithChar(rest, 41) THEN Err
    ELSE LET parts == Split(Take(rest, Len(rest) - 1), chComma) IN
         IF Len(parts) # 2 THEN Err
         ELSE LET p == ParseInt(Trim(parts[1]), 0, U8Max)
                  s == ParseInt(Trim(parts[2]), 0, U8Max)
              IN  IF ~p.ok \/ ~s.ok THEN Err
                  ELSE Ok([tag |-> "Decimal", p |-> p.val, s |-> s.val])

\* the loop over the variants of "Enum8(...)" / "Enum16(...)" / "Enum(...)"
RECURSIVE ParseEnumVariants(_, _, _, _)
ParseEnumVariants(pieces, map, lo, hi) ==
    IF Len(pieces) = 0 THEN Ok(map)
    ELSE LET parts == Split(Trim(pieces[1]), chEquals) IN
         IF Len(parts) # 2 THEN Err
         ELSE LET name == TrimEndMatches(TrimStartMatches(Trim(parts[1]), chQuote), chQuote)
                  index == ParseInt(Trim(parts[2]), lo, hi)
              IN  IF ~index.ok THEN Err
                  ELSE ParseEnumVariants(Tail(pieces),
                                         BTreeInsert(map, name, index.val), lo, hi)

ParseEnum(rest, tag, lo, hi) ==
    IF ~EndsWithChar(rest, 41) THEN Err
    ELSE LET m == ParseEnumVariants(Split(Take(rest, Len(rest) - 1), chComma),
                                    <<>>, lo, hi)
         IN  IF m.ok THEN Ok([tag |-> tag, variants |-> m.val]) ELSE Err

RECURSIVE TypeFromStr(_)
RECURSIVE ParseTupleTypes(_, _)
RECURSIVE ParseNestedFields(_, _)

\* the loop over the members of "Tuple(...)"
ParseTupleTypes(pieces, types) ==
    IF Len(pieces) = 0 THEN Ok(types)
    ELSE LET ty == TypeFromStr(Trim(pieces[1])) IN
         IF ~ty.ok THEN Err
         ELSE ParseTupleTypes(Tail(pieces), Append(types, ty.val))

\* the loop over the fields of "Nested(...)"
ParseNestedFields(pieces, fields) ==
    IF Len(pieces) = 0 THEN Ok(fields)
    ELSE LET parts == Split(Trim(pieces[1]), chSpace) IN
         IF Len(parts) # 2 THEN Err
         ELSE LET ty == TypeFromStr(Trim(parts[2])) IN
              IF ~ty.ok THEN Err
              ELSE ParseNestedFields(Tail(pieces),
                                     Append(fields, <<Trim(parts[1]), ty.val>>))

\* impl FromStr for Type
TypeFromStr(s) ==
    IF \E n \in ScalarNames : ScalarStr[n] = s
    THEN Ok([tag |-> CHOOSE n \in ScalarNames : ScalarStr[n] = s])
    ELSE IF StartsWith(s, kwDecimal) THEN ParseDecimal(Drop(s, Len(kwDecimal)))
    ELSE IF StartsWith(s, kwDecimal32) THEN
        ParseU8Arg(Drop(s, Len(kwDecimal32)), LAMBDA v : [tag |-> "Decimal32", s |-> v])
    ELSE IF StartsWith(s, kwDecimal64) THEN
        ParseU8Arg(Drop(s, Len(kwDecimal64)), LAMBDA v : [tag |-> "Decimal64", s |-> v])
    ELSE IF StartsWith(s, kwDecimal128) THEN
        ParseU8Arg(Drop(s, Len(kwDecimal128)), LAMBDA v : [tag |-> "Decimal128", s |-> v])
    ELSE IF StartsWith(s, kwDecimal256) THEN
        ParseU8Arg(Drop(s, Len(kwDecimal256)), LAMBDA v : [tag |-> "Decimal256", s |-> v])
    ELSE IF StartsWith(s, kwFixedString) THEN
        ParseU8Arg(Drop(s, Len(kwFixedString)), LAMBDA v : [tag |-> "FixedString", n |-> v])
    ELSE IF StartsWith(s, kwDateTime64) THEN
        ParseU8Arg(Drop(s, Len(kwDateTime64)), LAMBDA v : [tag |-> "DateTime64", p |-> v])
    ELSE IF StartsWith(s, kwEnum8) THEN
        ParseEnum(Drop(s, Len(kwEnum8)), "Enum8", I8Min, I8Max)
    ELSE IF StartsWith(s, kwEnum16) THEN
        ParseEnum(Drop(s, Len(kwEnum16)), "Enum16", I16Min, I16Max)
    ELSE IF StartsWith(s, kwEnum) THEN
        ParseEnum(Drop(s, Len(kwEnum)), "Enum16", I16Min, I16Max)
    ELSE IF StartsWith(s, kwArray) THEN
        LET rest == Drop(s, Len(kwArray)) IN
        IF ~EndsWithChar(rest, 41) THEN Err
        ELSE LET ty == TypeFromStr(Trim(Take(rest, Len(rest) - 1))) IN
             IF ty.ok THEN Ok([tag |-> "Array", elem |-> ty.val]) ELSE Err
    ELSE IF StartsWith(s, kwTuple) THEN
        LET rest == Drop(s, Len(kwTuple)) IN
        IF ~EndsWithChar(rest, 41) THEN Err
        ELSE LET tys == ParseTupleTypes(Split(Take(rest, Len(rest) - 1), chComma), <<>>) IN
             IF tys.ok THEN Ok([tag |-> "Tuple", types |-> tys.val]) ELSE Err
    ELSE IF StartsWith(s, kwMap) THEN
        LET rest == Drop(s, Len(kwMap)) IN
        IF ~EndsWithChar(rest, 41) THEN Err
        ELSE LET parts == Split(Take(rest, Len(rest) - 1), chComma) IN
             IF Len(parts) # 2 THEN Err
             ELSE LET key_ty == TypeFromStr(Trim(parts[1])) IN
                  IF ~key_ty.ok THEN Err
                  ELSE LET val_ty == TypeFromStr(Trim(parts[2])) IN
                       IF ~val_ty.ok THEN Err
                       ELSE Ok([tag |-> "Map", key |-> key_ty.val, val |-> val_ty.val])
    ELSE IF StartsWith(s, kwNested) THEN
        LET rest == Drop(s, Len(kwNested)) IN
        IF ~EndsWithChar(rest, 41) THEN Err
        ELSE LET fs == ParseNestedFields(Split(Take(rest, Len(rest) - 1), chComma), <<>>) IN
             IF fs.ok THEN Ok([tag |-> "Nested", fields |-> fs.val]) ELSE Err
    ELSE IF StartsWith(s, kwNullable) THEN
        LET rest == Drop(s, Len(kwNullable)) IN
        IF ~EndsWithChar(rest, 41) THEN Err
        ELSE LET ty == TypeFromStr(Take(rest, Len(rest) - 1)) IN
             IF ~ty.ok THEN Err
             ELSE IF ty.val.tag \in NullableEligible THEN Ok(AsNullableType(ty.val))
             ELSE Err
    ELSE Err

(***************************************************************************)
(* The constructible Type values of the model                              *)
(***************************************************************************)
MaxTypeDepth == 2    \* nesting depth of composite types
MaxArity == 2        \* members of a Tuple / fields of a Nested

T(tag) == [tag |-> tag]
TDecimal(p, s) == [tag |-> "Decimal", p |-> p, s |-> s]
TFixedString(n) == [tag |-> "FixedString", n |-> n]
TDateTime64(p) == [tag |-> "DateTime64", p |-> p]
TEnum8(variants) == [tag |-> "Enum8", variants |-> variants]
TEnum16(variants) == [tag |-> "Enum16", variants |-> variants]
TArray(t) == [tag |-> "Array", elem |-> t]
TTuple(types) == [tag |-> "Tuple", types |-> types]
TMap(k, v) == [tag |-> "Map", key |-> k, val |-> v]
TNested(fields) == [tag |-> "Nested", fields |-> fields]

strA == S("a")
strB == S("b")

\* BTreeMap<String, i8> values: always in key order
EnumMaps == { <<<<strA, 0>>>>, <<<<strA, 0>>, <<strB, 1>>>>, <<<<strA, -1>>, <<strB, 1>>>> }

\* the non-nullable types without a member type
PlainTypes ==
    {T(n) : n \in ScalarNames}
        \union {TDecimal(6, 2), TFixedString(2), TDateTime64(3)}
        \union {[tag |-> n, s |-> 2] : n \in DecimalNNames}
        \union {TEnum8(m) : m \in EnumMaps} \union {TEnum16(m) : m \in EnumMaps}

LeafTypes == PlainTypes \union {AsNullableType(t) : t \in PlainTypes}

\* the member types the composite types of the model are built from
MemberTypes == {T("UInt8"), T("String"), TDecimal(6, 2), T("NullableUInt8")}

SeqsUpTo(X, n) == UNION {[1..k -> X] : k \in 1..n}

\* the composite types whose members are drawn from X
Composites(X) ==
    {TArray(t) : t \in X}
        \union {TTuple(ts) : ts \in SeqsUpTo(X, MaxArity)}
        \union {TMap(T("String"), v) : v \in X}
        \union {TNested(<<<<strA, t>>>>) : t \in X}
        \union {TNested(<<<<strA, t[1]>>, <<strB, t[2]>>>>) : t \in [1..2 -> X]}

RECURSIVE MembersOfDepth(_)
MembersOfDepth(d) ==
    IF d = 0 THEN MemberTypes
    ELSE MembersOfDepth(d - 1) \union Composites(MembersOfDepth(d - 1))

TypesOfDepth(d) ==
    IF d = 0 THEN LeafTypes ELSE LeafTypes \union Composites(MembersOfDepth(d - 1))

(***************************************************************************)
(* core::Type::from_str (core/ty.rs), for the strings that start with      *)
(* "Nullable": the simple names, then the Nullable regex                   *)
(***************************************************************************)
\* [[:word:]]
IsWordChar(c) == c \in (48..57) \union (65..90) \union (97..122) \union {95}

\* the length of the longest run of word characters of s from position from
RECURSIVE WordRun(_, _)
WordRun(s, from) ==
    IF from > Len(s) THEN 0
    ELSE IF ~IsWordChar(s[from]) THEN 0
    ELSE 1 + WordRun(s, from + 1)

\* the regex Nullable\((?P<ty>[[:word:]]+)\) matches s at position i
NullableMatchAt(s, i) ==
    /\ StartsWith(Drop(s, i - 1), kwNullable)
    /\ WordRun(s, i + Len(kwNullable)) >= 1
    /\ i + Len(kwNullable) + WordRun(s, i + Len(kwNullable)) <= Len(s)
    /\ s[i + Len(kwNullable) + WordRun(s, i + Len(kwNullable))] = 41

\* regex.captures(s): the group ty of the leftmost match, as the offsets
\* [start, end) of the group, or None
RegexNullable(s) ==
    LET at == {i \in 1..Len(s) : NullableMatchAt(s, i)} IN
    IF at = {} THEN None
    ELSE LET i == CHOOSE x \in at : \A y \in at : x <= y IN
         Some([start |-> i - 1 + Len(kwNullable),
               end |-> i - 1 + Len(kwNullable) + WordRun(s, i + Len(kwNullable))])

\* m.as_str().parse::<Type>() of a run of word characters, then
\* as_nullable: only the simple names parse
CoreNullableOf(word) ==
    IF \E n \in ScalarNames : ScalarStr[n] = word
    THEN Ok(T("Nullable" \o (CHOOSE n \in ScalarNames : ScalarStr[n] = word)))
    ELSE Err

\* Type::from_str of core/ty.rs: no later branch takes a string that starts
\* with "Nullable", so without a match the call ends with the last error
core_from_str(s) ==
    LET parse(m) ==
            IF m = None THEN Err
            ELSE IF m[1].end + 1 < Len(s) THEN Err
            ELSE CoreNullableOf(SubSeq(s, m[1].start + 1, m[1].end))
    IN  IF \E n \in ScalarNames : ScalarStr[n] = s THEN Ok(T(CHOOSE n \in ScalarNames : ScalarStr[n] = s))
        ELSE parse(RegexNullable(s))

(***************************************************************************)
(* Value (value/mod.rs).  A Value is [tag, inner].  An integer variant of up   *)
(* to 64 bits holds its number; a 128/256-bit integer and a float hold     *)
(* their little-endian bytes, a UUID its 16 bytes.  A HashMap<String,      *)
(* Value> (Map, Nested) is a sequence of <<key, value>> with distinct      *)
(* keys, in the iteration order of that HashMap instance.                  *)
(***************************************************************************)
V(tag, v) == [tag |-> tag, inner |-> v]

\* the integer variants: bytes of the wire integer, and its range
IntTags == {"UInt8", "UInt16", "UInt32", "UInt64", "Int8", "Int16", "Int32", "Int64",
            "Date", "Date32", "DateTime", "DateTime64", "Enum8", "Enum16"}
IntWidth(tag) ==
    CASE tag \in {"UInt8", "Int8", "Enum8"} -> 1
      [] tag \in {"UInt16", "Int16", "Date", "Enum16"} -> 2
      [] tag \in {"UInt32", "Int32", "Date32", "DateTime"} -> 4
      [] tag \in {"UInt64", "Int64", "DateTime64"} -> 8
IntSigned(tag) ==
    tag \in {"Int8", "Int16", "Int32", "Int64", "Date32", "DateTime64", "Enum8", "Enum16"}

\* the variants the model carries as bytes, and their width
WideTags == {"UInt128", "Int128", "UInt256", "Int256", "Float32", "Float64", "UUID"}
WideWidth(tag) ==
    CASE tag = "Float32" -> 4
      [] tag = "Float64" -> 8
      [] tag \in {"UInt128", "Int128", "UUID"} -> 16
      [] tag \in {"UInt256", "Int256"} -> 32

ContainerTags == {"Array", "Tuple", "Map", "Nested"}

IsNullableValue(value) == value.tag \in NullableNames

MapKeys(map) == {map[i][1] : i \in 1..Len(map)}
MapGet(map, k) == map[CHOOSE i \in 1..Len(map) : map[i][1] = k][2]

\* HashMap::insert: replaces the value of a key the map holds
MapInsert(map, k, v) ==
    IF k \in MapKeys(map)
    THEN [i \in 1..Len(map) |-> IF map[i][1] = k THEN <<k, v>> ELSE map[i]]
    ELSE Append(map, <<k, v>>)

\* derive(PartialEq) for Value: HashMaps are equal when they hold the same
\* keys with equal values, in any iteration order
RECURSIVE ValueEq(_, _)
ValueEq(a, b) ==
    IF a.tag # b.tag THEN FALSE
    ELSE IF a.tag \in {"Array", "Tuple"} THEN
        /\ Len(a.inner) = Len(b.inner)
        /\ \A i \in 1..Len(a.inner) : ValueEq(a.inner[i], b.inner[i])
    ELSE IF a.tag \in {"Map", "Nested"} THEN
        /\ MapKeys(a.inner) = MapKeys(b.inner)
        /\ \A k \in MapKeys(a.inner) : ValueEq(MapGet(a.inner, k), MapGet(b.inner, k))
    ELSE a.inner = b.inner

\* Value::is_same_type_as
RECURSIVE IsSameTypeAs(_, _)
IsSameTypeAs(value, ty) ==
    IF value.tag \in {"Enum8", "Enum16"} THEN
        /\ ty.tag = value.tag
        /\ \E i \in 1..Len(ty.variants) : ty.variants[i][2] = value.inner
    ELSE IF value.tag = "Array" THEN
        /\ ty.tag = "Array"
        /\ \A i \in 1..Len(value.inner) : IsSameTypeAs(value.inner[i], ty.elem)
    ELSE IF value.tag = "Tuple" THEN
        /\ ty.tag = "Tuple"
        /\ Len(value.inner) = Len(ty.types)
        /\ \A i \in 1..Len(value.inner) : IsSameTypeAs(value.inner[i], ty.types[i])
    ELSE IF value.tag = "Map" THEN
        /\ ty.tag = "Map"
        /\ \A i \in 1..Len(value.inner) : IsSameTypeAs(value.inner[i][2], ty.val)
    ELSE IF value.tag = "Nested" THEN
        /\ ty.tag = "Nested"
        /\ \A i \in 1..Len(value.inner) :
                \E j \in 1..Len(ty.fields) : ty.fields[j][1] = value.inner[i][1]
           \* values.iter().zip(fields): the i-th entry in iteration order
           \* against the i-th declared field
        /\ \A i \in 1..Len(value.inner) :
                i <= Len(ty.fields) => IsSameTypeAs(value.inner[i][2], ty.fields[i][2])
    ELSE ty.tag = value.tag

\* Value::into_nullable
IntoNullable(value) ==
    IF value.tag \in ContainerTags THEN None
    ELSE IF IsNullableValue(value) THEN Some(value)
    ELSE Some(V("Nullable" \o value.tag, Some(value.inner)))

(***************************************************************************)
(* RowBinary (query/fmt/rowbin/mod.rs)                                     *)
(***************************************************************************)
\* <int>::to_le_bytes: two's complement, little endian
RECURSIVE ToLeBytes(_, _)
ToLeBytes(n, width) ==
    IF width = 0 THEN <<>> ELSE <<n % 256>> \o ToLeBytes(n \div 256, width - 1)

\* <int>::from_le_bytes
RECURSIVE FromLeBytes(_, _)
FromLeBytes(bytes, signed) ==
    IF Len(bytes) = 1
    THEN IF signed /\ bytes[1] >= 128 THEN bytes[1] - 256 ELSE bytes[1]
    ELSE 256 * FromLeBytes(Tail(bytes), signed) + bytes[1]

\* leb128::write::unsigned
RECURSIVE Leb128Write(_)
Leb128Write(n) ==
    IF n < 128 THEN <<n>> ELSE <<128 + (n % 128)>> \o Leb128Write(n \div 128)

\* leb128::read::unsigned: [ok, val, rest]; Err at the end of the input
RECURSIVE Leb128Read(_)
Leb128Read(bytes) ==
    IF Len(bytes) = 0 THEN Err
    ELSE IF bytes[1] < 128 THEN [ok |-> TRUE, val |-> bytes[1], rest |-> Tail(bytes)]
    ELSE LET r == Leb128Read(Tail(bytes)) IN
         IF ~r.ok THEN Err
         ELSE [ok |-> TRUE, val |-> (bytes[1] - 128) + 128 * r.val, rest |-> r.rest]

\* String::from_utf8 on the bytes of the model: ASCII is valid, 0x80..0xFF
\* alone is not
Utf8Valid(bytes) == \A i \in 1..Len(bytes) : bytes[i] < 128

\* flat_map / append over a sequence of byte strings
RECURSIVE Concat(_)
Concat(parts) == IF Len(parts) = 0 THEN <<>> ELSE parts[1] \o Concat(Tail(parts))

Reverse(s) == [i \in 1..Len(s) |-> s[Len(s) + 1 - i]]

\* Uuid::as_u64_pair / from_u64_pair with to_le_bytes / from_le_bytes: each
\* 8-byte half of the UUID is written in reverse byte order
UuidWords(bytes) == Reverse(SubSeq(bytes, 1, 8)) \o Reverse(SubSeq(bytes, 9, 16))

RowBinFormatString(str) == Leb128Write(Len(str)) \o str

\* RowBinFormatter::format_value
RECURSIVE RowBinFormatValue(_)
RowBinFormatValue(value) ==
    IF value.tag \in IntTags THEN ToLeBytes(value.inner, IntWidth(value.tag))
    ELSE IF value.tag = "UUID" THEN UuidWords(value.inner)
    ELSE IF value.tag \in WideTags THEN value.inner
    ELSE IF value.tag = "Bool" THEN (IF value.inner THEN <<1>> ELSE <<0>>)
    ELSE IF value.tag = "String" THEN RowBinFormatString(value.inner)
    ELSE IF value.tag = "Array" THEN
        Leb128Write(Len(value.inner))
            \o Concat([i \in 1..Len(value.inner) |-> RowBinFormatValue(value.inner[i])])
    ELSE IF value.tag = "Tuple" THEN
        Concat([i \in 1..Len(value.inner) |-> RowBinFormatValue(value.inner[i])])
    ELSE IF value.tag = "Map" THEN
        Leb128Write(Len(value.inner))
            \o Concat([i \in 1..Len(value.inner) |->
                        RowBinFormatString(value.inner[i][1])
                            \o RowBinFormatValue(value.inner[i][2])])
    ELSE IF value.tag = "Nested" THEN
        Concat([i \in 1..Len(value.inner) |->
                    RowBinFormatString(value.inner[i][1]) \o RowBinFormatValue(value.inner[i][2])])
    ELSE \* impl_nullable!
        IF value.inner = None THEN <<1>>
        ELSE <<0>> \o RowBinFormatValue(V(SubSeq(value.tag, 9, Len(value.tag)), value.inner[1]))

\* a parse result with the bytes left to read
OkRest(v, rest) == [ok |-> TRUE, val |-> v, rest |-> rest]

\* RowBinFormatter::parse_value_str
RowBinParseStr(bytes) ==
    LET n == Leb128Read(bytes) IN
    IF ~n.ok THEN Err
    ELSE IF Len(n.rest) < n.val THEN Err
    ELSE IF ~Utf8Valid(Take(n.rest, n.val)) THEN Err
    ELSE OkRest(Take(n.rest, n.val), Drop(n.rest, n.val))

RECURSIVE RowBinParseValue(_, _)
RECURSIVE RowBinParseSeq(_, _, _)
RECURSIVE RowBinParseMap(_, _, _, _)
RECURSIVE RowBinParseNested(_, _, _)
RECURSIVE impl_nullable(_, _)

\* the loops of Array (n times the same type) and Tuple: one value per type
RowBinParseSeq(bytes, types, values) ==
    IF Len(types) = 0 THEN OkRest(values, bytes)
    ELSE LET r == RowBinParseValue(bytes, types[1]) IN
         IF ~r.ok THEN r
         ELSE RowBinParseSeq(r.rest, Tail(types), Append(values, r.val))

\* the loop of Map: n times a String key and a value
RowBinParseMap(bytes, n, ty_val, map) ==
    IF n = 0 THEN OkRest(map, bytes)
    ELSE LET key == RowBinParseStr(bytes) IN
         IF ~key.ok THEN Err
         ELSE LET r == RowBinParseValue(key.rest, ty_val) IN
              IF ~r.ok THEN r
              ELSE RowBinParseMap(r.rest, n - 1, ty_val, MapInsert(map, key.val, r.val))

\* the loop of Nested: for every declared field a String key and a value
RowBinParseNested(bytes, fields, map) ==
    IF Len(fields) = 0 THEN OkRest(map, bytes)
    ELSE LET key == RowBinParseStr(bytes) IN
         IF ~key.ok THEN Err
         ELSE LET r == RowBinParseValue(key.rest, fields[1][2]) IN
              IF ~r.ok THEN r
              ELSE RowBinParseNested(r.rest, Tail(fields), MapInsert(map, key.val, r.val))

\* impl_nullable! with every byte but 0x00 read as NULL
impl_nullable_or_null(bytes, ty) ==
    LET some(r, nv) == IF nv = None THEN Err ELSE OkRest(nv[1], r.rest)
        inner(r) == IF ~r.ok THEN r ELSE some(r, IntoNullable(r.val))
    IN  IF Len(bytes) < 1 THEN Err
        ELSE IF bytes[1] = 0 THEN inner(RowBinParseValue(Tail(bytes), NonNullableType(ty)))
        ELSE OkRest(V(IF ty.tag = "NullableFixedString" THEN "NullableString" ELSE ty.tag,
                      None),
                    Tail(bytes))

\* the macro impl_nullable! of parse_value: ty is the Nullable type
impl_nullable(bytes, ty) ==
    LET some(r, nv) == IF nv = None THEN Err ELSE OkRest(nv[1], r.rest)
        inner(r) == IF ~r.ok THEN r ELSE some(r, IntoNullable(r.val))
    IN  IF Len(bytes) < 1 THEN Err
        ELSE IF bytes[1] = 1 THEN
            OkRest(V(IF ty.tag = "NullableFixedString" THEN "NullableString" ELSE ty.tag,
                     None),
                   Tail(bytes))
        ELSE IF bytes[1] = 0 THEN inner(RowBinParseValue(Tail(bytes), NonNullableType(ty)))
        ELSE Err

\* RowBinFormatter::parse_value
RowBinParseValue(bytes, ty) ==
    IF ty.tag \in IntTags THEN
        IF Len(bytes) < IntWidth(ty.tag) THEN Err
        ELSE OkRest(V(ty.tag, FromLeBytes(Take(bytes, IntWidth(ty.tag)), IntSigned(ty.tag))),
                    Drop(bytes, IntWidth(ty.tag)))
    ELSE IF ty.tag \in WideTags THEN
        IF Len(bytes) < WideWidth(ty.tag) THEN Err
        ELSE OkRest(V(ty.tag, IF ty.tag = "UUID" THEN UuidWords(Take(bytes, 16))
                              ELSE Take(bytes, WideWidth(ty.tag))),
                    Drop(bytes, WideWidth(ty.tag)))
    ELSE IF ty.tag \in DecimalNNames \union {"Decimal"} THEN Panic   \* unimplemented!
    ELSE IF ty.tag = "Bool" THEN
        IF Len(bytes) < 1 THEN Err
        ELSE IF bytes[1] = 0 THEN OkRest(V("Bool", FALSE), Tail(bytes))
        ELSE IF bytes[1] = 1 THEN OkRest(V("Bool", TRUE), Tail(bytes))
        ELSE Err
    ELSE IF ty.tag = "String" THEN
        LET r == RowBinParseStr(bytes) IN
        IF ~r.ok THEN Err ELSE OkRest(V("String", r.val), r.rest)
    ELSE IF ty.tag = "FixedString" THEN
        IF Len(bytes) < ty.n THEN Err
        ELSE IF ~Utf8Valid(Take(bytes, ty.n)) THEN Err
        ELSE OkRest(V("String", Take(bytes, ty.n)), Drop(bytes, ty.n))
    ELSE IF ty.tag = "Array" THEN
        LET n == Leb128Read(bytes) IN
        IF ~n.ok THEN Err
        ELSE LET r == RowBinParseSeq(n.rest, [i \in 1..n.val |-> ty.elem], <<>>) IN
             IF ~r.ok THEN r ELSE OkRest(V("Array", r.val), r.rest)
    ELSE IF ty.tag = "Tuple" THEN
        LET r == RowBinParseSeq(bytes, ty.types, <<>>) IN
        IF ~r.ok THEN r ELSE OkRest(V("Tuple", r.val), r.rest)
    ELSE IF ty.tag = "Map" THEN
        LET n == Leb128Read(bytes) IN
        IF ~n.ok THEN Err
        ELSE LET r == RowBinParseMap(n.rest, n.val, ty.val, <<>>) IN
             IF ~r.ok THEN r ELSE OkRest(V("Map", r.val), r.rest)
    ELSE IF ty.tag = "Nested" THEN
        LET r == RowBinParseNested(bytes, ty.fields, <<>>) IN
        IF ~r.ok THEN r ELSE OkRest(V("Nested", r.val), r.rest)
    ELSE IF NonNullableType(ty).tag \notin DecimalNNames \union {"Decimal"} THEN
        impl_nullable(bytes, ty)
    ELSE Panic   \* the NullableDecimal variants: unimplemented!

\* deserialize_value without the test for remaining bytes
RowBinDeserializeValueLax(bytes, ty) ==
    LET r == RowBinParseValue(bytes, ty) IN
    IF ~r.ok THEN r ELSE Ok(r.val)

\* Formatter::deserialize_value for RowBinFormatter
RowBinDeserializeValue(bytes, ty) ==
    LET r == RowBinParseValue(bytes, ty) IN
    IF ~r.ok THEN r
    ELSE IF Len(r.rest) # 0 THEN Err
    ELSE Ok(r.val)

(***************************************************************************)
(* TabSeparated (query/fmt/tab/mod.rs).  A formatter is the record of its  *)
(* three flags [raw, with_names, with_types].  The text codec is modelled  *)
(* for the 8- and 16-bit integers, Bool, String, FixedString, the enums,   *)
(* the containers and their Nullable counterparts.                         *)
(***************************************************************************)
NULL == S("\\N")

escBackslash == S("\\b")
escSpace == S("\\n")
escTab == S("\\t")
escQuote == S("\\'")

\* StringExt::escape
escape(s) ==
    Replace(Replace(Replace(Replace(s, <<chBackslash>>, escBackslash),
                            <<chSpace>>, escSpace),
                    <<chTab>>, escTab),
            <<chQuote>>, escQuote)

\* StringExt::unescape
unescape(s) ==
    Replace(Replace(Replace(Replace(s, escBackslash, <<chBackslash>>),
                            escSpace, <<chSpace>>),
                    escTab, <<chTab>>),
            escQuote, <<chQuote>>)

\* StringExt::enclose
enclose(s) == <<chQuote>> \o s \o <<chQuote>>

\* StringExt::unenclose
unenclose(s) == TrimEndMatches(TrimStartMatches(s, chQuote), chQuote)

TsvIntTags == {"UInt8", "UInt16", "Int8", "Int16", "Enum8", "Enum16"}
TsvIntMin(tag) ==
    CASE tag \in {"UInt8", "UInt16"} -> 0
      [] tag = "Int8" -> I8Min
      [] tag = "Int16" -> I16Min
TsvIntMax(tag) ==
    CASE tag = "UInt8" -> U8Max
      [] tag = "UInt16" -> U16Max
      [] tag = "Int8" -> I8Max
      [] tag = "Int16" -> I16Max

\* [String]::sort: insertion of one string into a sorted sequence
RECURSIVE SortedInsert(_, _)
SortedInsert(sorted, x) ==
    IF Len(sorted) = 0 THEN <<x>>
    ELSE IF StrLess(x, sorted[1]) THEN <<x>> \o sorted
    ELSE <<sorted[1]>> \o SortedInsert(Tail(sorted), x)

RECURSIVE SortStrings(_)
SortStrings(xs) ==
    IF Len(xs) = 0 THEN <<>>
    ELSE SortedInsert(SortStrings(SubSeq(xs, 1, Len(xs) - 1)), xs[Len(xs)])

\* TsvFormatter::format_value_iter
RECURSIVE TsvFormatValueIter(_, _, _)
TsvFormatValueIter(fmt, value, is_within_array) ==
    CASE value.tag \in TsvIntTags -> IntToString(value.inner)
      [] value.tag = "Bool" -> (IF value.inner THEN S("true") ELSE S("false"))
      [] value.tag = "String" ->
            LET s == IF fmt.raw THEN value.inner ELSE escape(value.inner)
            IN  IF is_within_array THEN enclose(s) ELSE s
      [] value.tag = "Array" ->
            S("[")
                \o Join([i \in 1..Len(value.inner) |->
                            TsvFormatValueIter(fmt, value.inner[i], TRUE)], kwSep)
                \o S("]")
      [] value.tag = "Tuple" ->
            S("(")
                \o Join([i \in 1..Len(value.inner) |->
                            TsvFormatValueIter(fmt, value.inner[i], TRUE)], kwSep)
                \o S(")")
      [] value.tag = "Map" ->
            S("{")
                \o Join(SortStrings([i \in 1..Len(value.inner) |->
                            <<chQuote>> \o value.inner[i][1] \o <<chQuote>> \o S(": ")
                                \o TsvFormatValueIter(fmt, value.inner[i][2], TRUE)]),
                        kwSep)
                \o S("}")
      [] value.tag = "Nested" ->
            \* fields.into_values() as an Array
            TsvFormatValueIter(fmt,
                V("Array", [i \in 1..Len(value.inner) |-> value.inner[i][2]]), FALSE)
      [] IsNullableValue(value) ->
            \* impl_nullable!
            IF value.inner = None THEN NULL
            ELSE TsvFormatValueIter(fmt,
                    V(SubSeq(value.tag, 9, Len(value.tag)), value.inner[1]), is_within_array)

\* TsvFormatter::format_value
TsvFormatValue(fmt, value) == TsvFormatValueIter(fmt, value, FALSE)

\* BTreeMap::get
BTreeGet(map, k) ==
    IF \E i \in 1..Len(map) : map[i][1] = k
    THEN Some(map[CHOOSE i \in 1..Len(map) : map[i][1] = k][2])
    ELSE None

RECURSIVE TsvParseValueIter(_, _, _, _)
RECURSIVE TsvParseSeq(_, _, _, _)
RECURSIVE TsvParseMap(_, _, _, _)
RECURSIVE TsvParseNested(_, _, _, _, _)

\* the loops of Array and Tuple: the i-th part against the i-th type
TsvParseSeq(fmt, parts, types, values) ==
    IF Len(parts) = 0 THEN Ok(values)
    ELSE LET r == TsvParseValueIter(fmt, Trim(parts[1]), types[1], TRUE) IN
         IF ~r.ok THEN r
         ELSE TsvParseSeq(fmt, Tail(parts), Tail(types), Append(values, r.val))

\* the loop of Map over the "key: value" pairs
TsvParseMap(fmt, kv_pairs, ty_val, map) ==
    IF Len(kv_pairs) = 0 THEN Ok(map)
    ELSE LET parts == Split(Trim(kv_pairs[1]), chColon) IN
         IF Len(parts) # 2 THEN Err
         ELSE LET key == unenclose(Trim(parts[1]))
                  r == TsvParseValueIter(fmt, Trim(parts[2]), ty_val, TRUE)
              IN  IF ~r.ok THEN r
                  ELSE TsvParseMap(fmt, Tail(kv_pairs), ty_val, MapInsert(map, key, r.val))

\* the loop of Nested: the i-th part is the value of the i-th declared field
TsvParseNested(fmt, parts, i, fields, map) ==
    IF i > Len(parts) THEN Ok(map)
    ELSE IF i > Len(fields) THEN Err
    ELSE LET r == TsvParseValueIter(fmt, Trim(parts[i]), fields[i][2], TRUE) IN
         IF ~r.ok THEN r
         ELSE TsvParseNested(fmt, parts, i + 1, fields, MapInsert(map, fields[i][1], r.val))

\* TsvFormatter::parse_value_iter
TsvParseValueIter(fmt, value, ty, is_within_array) ==
    CASE ty.tag \in {"UInt8", "UInt16", "Int8", "Int16"} ->
            LET n == ParseInt(value, TsvIntMin(ty.tag), TsvIntMax(ty.tag)) IN
            IF n.ok THEN Ok(V(ty.tag, n.val)) ELSE Err
      [] ty.tag = "Bool" ->
            IF value = S("true") THEN Ok(V("Bool", TRUE))
            ELSE IF value = S("false") THEN Ok(V("Bool", FALSE))
            ELSE Err
      [] ty.tag \in {"String", "FixedString"} ->
            LET v == unescape(value)
            IN  Ok(V("String", IF is_within_array THEN unenclose(v) ELSE v))
      [] ty.tag \in {"Enum8", "Enum16"} ->
            LET i == BTreeGet(ty.variants, value) IN
            IF i = None THEN Err ELSE Ok(V(ty.tag, i[1]))
      [] ty.tag = "Array" ->
            LET t == Trim(value) IN
            IF ~StartsWith(t, S("[")) \/ ~EndsWithChar(Tail(t), 93) THEN Err
            ELSE LET parts == Split(Trim(SubSeq(t, 2, Len(t) - 1)), chComma)
                     r == TsvParseSeq(fmt, parts, [i \in 1..Len(parts) |-> ty.elem], <<>>)
                 IN  IF r.ok THEN Ok(V("Array", r.val)) ELSE r
      [] ty.tag = "Tuple" ->
            LET t == Trim(value) IN
            IF ~StartsWith(t, S("(")) \/ ~EndsWithChar(Tail(t), 41) THEN Err
            ELSE LET parts == Split(Trim(SubSeq(t, 2, Len(t) - 1)), chComma) IN
                 IF Len(parts) # Len(ty.types) THEN Err
                 ELSE LET r == TsvParseSeq(fmt, parts, ty.types, <<>>)
                      IN  IF r.ok THEN Ok(V("Tuple", r.val)) ELSE r
      [] ty.tag = "Map" ->
            LET t == Trim(value) IN
            IF ~StartsWith(t, S("{")) \/ ~EndsWithChar(Tail(t), 125) THEN Err
            ELSE LET kv_pairs == Split(Trim(SubSeq(t, 2, Len(t) - 1)), chComma)
                     r == TsvParseMap(fmt, kv_pairs, ty.val, <<>>)
                 IN  IF r.ok THEN Ok(V("Map", r.val)) ELSE r
      [] ty.tag = "Nested" ->
            LET t == Trim(value) IN
            IF ~StartsWith(t, S("[")) \/ ~EndsWithChar(Tail(t), 93) THEN Err
            ELSE LET parts == Split(Trim(SubSeq(t, 2, Len(t) - 1)), chComma)
                     r == TsvParseNested(fmt, parts, 1, ty.fields, <<>>)
                 IN  IF r.ok THEN Ok(V("Nested", r.val)) ELSE r
      [] IsNullableType(ty) ->
            IF value = NULL
            THEN Ok(V(IF ty.tag = "NullableFixedString" THEN "NullableString" ELSE ty.tag,
                      None))
            ELSE LET r == TsvParseValueIter(fmt, value, NonNullableType(ty), FALSE) IN
                 IF ~r.ok THEN r
                 ELSE LET nv == IntoNullable(r.val) IN
                      IF nv = None THEN Panic ELSE Ok(nv[1])   \* into_nullable().unwrap()

\* TsvFormatter::parse_value
TsvParseValue(fmt, value, ty) == TsvParseValueIter(fmt, value, ty, FALSE)

(***************************************************************************)
(* QueryData (query/data.rs): [kind, rows] with names for WithNames and    *)
(* names_and_types, a sequence of <<name, Type>>, for WithNamesAndTypes    *)
(***************************************************************************)
no_headers == [kind |-> "NoHeaders", rows |-> <<>>]

with_names(names) == [kind |-> "WithNames", names |-> names, rows |-> <<>>]

with_names_and_types(names_and_types) ==
    [kind |-> "WithNamesAndTypes", names_and_types |-> names_and_types, rows |-> <<>>]

get_rows(self) == self.rows

n_rows(self) == Len(get_rows(self))

\* Option<Vec<(&str, Option<Type>)>>
get_columns(self) ==
    CASE self.kind = "NoHeaders" -> None
      [] self.kind = "WithNames" ->
            Some([i \in 1..Len(self.names) |-> <<self.names[i], None>>])
      [] self.kind = "WithNamesAndTypes" ->
            Some([i \in 1..Len(self.names_and_types) |->
                    <<self.names_and_types[i][1], Some(self.names_and_types[i][2])>>])

\* n_cols without the fall back to the first row
n_cols_of_headers(self) ==
    LET columns == get_columns(self) IN
    IF columns # None THEN Len(columns[1]) ELSE 0

n_cols(self) ==
    LET columns == get_columns(self) IN
    IF columns # None THEN Len(columns[1])
    ELSE IF Len(get_rows(self)) > 0 THEN Len(get_rows(self)[1]) ELSE 0

get_types(self) ==
    IF self.kind = "WithNamesAndTypes"
    THEN Some([i \in 1..Len(self.names_and_types) |-> self.names_and_types[i][2]])
    ELSE None

into_parts(self) ==
    CASE self.kind = "NoHeaders" -> [names |-> None, types |-> None, rows |-> self.rows]
      [] self.kind = "WithNames" ->
            [names |-> Some(self.names), types |-> None, rows |-> self.rows]
      [] self.kind = "WithNamesAndTypes" ->
            [names |-> Some([i \in 1..Len(self.names_and_types) |-> self.names_and_types[i][1]]),
             types |-> Some([i \in 1..Len(self.names_and_types) |-> self.names_and_types[i][2]]),
             rows |-> self.rows]

\* add_row_checked without the check of the value types
add_row_width_checked(self, row, dbg) ==
    IF dbg /\ n_cols(self) > 0 /\ Len(row) # n_cols(self) THEN Panic
    ELSE Ok([self EXCEPT !.rows = Append(@, row)])

\* QueryData::add_row_checked: both checks exist only under
\* cfg(debug_assertions), and a failed check panics
add_row_checked(self, row, dbg) ==
    IF dbg /\ n_cols(self) > 0 /\ Len(row) # n_cols(self) THEN Panic
    ELSE IF /\ dbg
            /\ get_columns(self) # None
            /\ \E i \in 1..Len(row) :
                  /\ i <= Len(get_columns(self)[1])
                  /\ get_columns(self)[1][i][2] # None
                  /\ ~IsSameTypeAs(row[i], get_columns(self)[1][i][2][1])
         THEN Panic
    ELSE Ok([self EXCEPT !.rows = Append(@, row)])

\* QueryData::add_row, and QueryData::row which returns the table
add_row(self, row, dbg) == add_row_checked(self, row, dbg)

\* QueryData::add_rows, and QueryData::rows which returns the table; when a
\* row panics the rows before it are in the table
RECURSIVE add_rows(_, _, _)
add_rows(self, rows, dbg) ==
    IF Len(rows) = 0 THEN Ok(self)
    ELSE LET next(r) ==
                 IF ~r.ok THEN [ok |-> FALSE, panic |-> TRUE, val |-> self]
                 ELSE add_rows(r.val, Tail(rows), dbg)
         IN  next(add_row_checked(self, rows[1], dbg))

\* PartialEq of QueryData: headers equal, rows equal cell by cell
QueryDataEq(a, b) ==
    /\ a.kind = b.kind
    /\ a.kind = "WithNames" => a.names = b.names
    /\ a.kind = "WithNamesAndTypes" => a.names_and_types = b.names_and_types
    /\ Len(a.rows) = Len(b.rows)
    /\ \A i \in 1..Len(a.rows) :
          /\ Len(a.rows[i]) = Len(b.rows[i])
          /\ \A j \in 1..Len(a.rows[i]) : ValueEq(a.rows[i][j], b.rows[i][j])

(***************************************************************************)
(* RowBinary tables (query/fmt/rowbin/mod.rs)                              *)
(***************************************************************************)
\* a loop that never ends: the call neither returns nor panics
Hang == [ok |-> FALSE, panic |-> FALSE, hang |-> TRUE]
IsHang(r) == "hang" \in DOMAIN r

RowBinNames == [with_names |-> TRUE, with_types |-> FALSE]
RowBinNamesAndTypes == [with_names |-> TRUE, with_types |-> TRUE]
RowBinPlain == [with_names |-> FALSE, with_types |-> FALSE]

\* RowBinFormatter::format_data
RowBinFormatData(fmt, data) ==
    LET parts == into_parts(data)
        names == IF fmt.with_names
                 THEN Leb128Write(Len(parts.names[1]))
                        \o Concat([i \in 1..Len(parts.names[1]) |->
                                      RowBinFormatValue(V("String", parts.names[1][i]))])
                 ELSE <<>>
        types == IF fmt.with_types
                 THEN Leb128Write(Len(parts.types[1]))
                        \o Concat([i \in 1..Len(parts.types[1]) |->
                                      RowBinFormatValue(V("String", TypeToString(parts.types[1][i])))])
                 ELSE <<>>
        rows == Concat([i \in 1..Len(parts.rows) |->
                          Concat([j \in 1..Len(parts.rows[i]) |->
                                     RowBinFormatValue(parts.rows[i][j])])])
    IN  IF fmt.with_names /\ parts.names = None THEN Err
        ELSE IF fmt.with_types /\ parts.types = None THEN Err
        ELSE Ok(names \o types \o rows)

\* for _i in 0..n { names.push(parse_value_str(bytes)?) }
RECURSIVE RowBinParseNames(_, _, _)
RowBinParseNames(bytes, n, names) ==
    IF n = 0 THEN OkRest(names, bytes)
    ELSE LET push(name) ==
                 IF ~name.ok THEN Err
                 ELSE RowBinParseNames(name.rest, n - 1, Append(names, name.val))
         IN  push(RowBinParseStr(bytes))

\* for i in 0..n { the type string, Type::from_str, names.get(i) }
RECURSIVE RowBinParseTypes(_, _, _, _)
RowBinParseTypes(bytes, n, names, names_and_types) ==
    IF Len(names_and_types) = n THEN OkRest(names_and_types, bytes)
    ELSE LET push(ty_str, ty) ==
                 IF ~ty.ok THEN Err
                 ELSE IF Len(names_and_types) + 1 > Len(names) THEN Err
                 ELSE RowBinParseTypes(ty_str.rest, n, names,
                          Append(names_and_types,
                                 <<names[Len(names_and_types) + 1], ty.val>>))
             from_str(ty_str) ==
                 IF ~ty_str.ok THEN Err
                 ELSE push(ty_str, TypeFromStr(ty_str.val))
         IN  from_str(RowBinParseStr(bytes))

\* for ty in &types { row.push(parse_value(bytes, ty)?) }
RECURSIVE RowBinParseRow(_, _, _)
RowBinParseRow(bytes, types, row) ==
    IF Len(types) = 0 THEN OkRest(row, bytes)
    ELSE LET push(value) ==
                 IF ~value.ok THEN value
                 ELSE RowBinParseRow(value.rest, Tail(types), Append(row, value.val))
         IN  push(RowBinParseValue(bytes, types[1]))

\* while !bytes.is_empty() { parse a row; data.add_row(row) }: a row that
\* consumes no byte leaves the loop condition true forever
RECURSIVE RowBinParseRows(_, _, _, _)
RowBinParseRows(bytes, types, data, dbg) ==
    IF Len(bytes) = 0 THEN Ok(data)
    ELSE LET next(row, added) ==
                 IF ~added.ok THEN added
                 ELSE IF Len(row.rest) = Len(bytes) THEN Hang
                 ELSE RowBinParseRows(row.rest, types, added.val, dbg)
             push(row) ==
                 IF ~row.ok THEN row
                 ELSE next(row, add_row(data, row.val, dbg))
         IN  push(RowBinParseRow(bytes, types, <<>>))

\* RowBinFormatter::parse_data; mapping is an Option of <<name, Type>>s
RowBinParseData(fmt, bytes, mapping, dbg) ==
    LET with_types(nts) ==
            IF ~nts.ok THEN Err
            ELSE OkRest(with_names_and_types(nts.val), nts.rest)
        with_header(n, names) ==
            IF ~names.ok THEN Err
            ELSE IF ~fmt.with_types THEN OkRest(with_names(names.val), names.rest)
            ELSE with_types(RowBinParseTypes(names.rest, n.val, names.val, <<>>))
        n_cols_read(n) ==
            IF ~n.ok THEN Panic             \* leb128::read::unsigned(bytes).unwrap()
            ELSE with_header(n, RowBinParseNames(n.rest, n.val, <<>>))
        types(data) ==
            IF get_types(data) # None THEN get_types(data)
            ELSE IF mapping # None
                 THEN Some([i \in 1..Len(mapping[1]) |-> mapping[1][i][2]])
            ELSE None
        rows(header, tys) ==
            IF tys = None THEN Err
            ELSE RowBinParseRows(header.rest, tys[1], header.val, dbg)
        body(header) ==
            IF ~header.ok THEN header ELSE rows(header, types(header.val))
    IN  body(IF ~fmt.with_names THEN OkRest(no_headers, bytes)
             ELSE n_cols_read(Leb128Read(bytes)))

(***************************************************************************)
(* TabSeparated tables (query/fmt/tab/mod.rs)                              *)
(***************************************************************************)
TsvDefault == [raw |-> FALSE, with_names |-> FALSE, with_types |-> FALSE]
TsvNames == [raw |-> FALSE, with_names |-> TRUE, with_types |-> FALSE]
TsvNamesAndTypes == [raw |-> FALSE, with_names |-> TRUE, with_types |-> TRUE]

\* TsvFormatter::format_table_row: a tab after every value but the last,
\* a newline after the last; nothing at all for no value
TsvFormatTableRow(values) ==
    IF Len(values) = 0 THEN <<>> ELSE Join(values, <<chTab>>) \o <<chNewline>>

\* TsvFormatter::format_data
TsvFormatData(fmt, data) ==
    LET parts == into_parts(data)
        names == IF fmt.with_names THEN TsvFormatTableRow(parts.names[1]) ELSE <<>>
        types == IF fmt.with_types
                 THEN TsvFormatTableRow([i \in 1..Len(parts.types[1]) |->
                                            TypeToString(parts.types[1][i])])
                 ELSE <<>>
        rows == Concat([i \in 1..Len(parts.rows) |->
                          TsvFormatTableRow([j \in 1..Len(parts.rows[i]) |->
                                                TsvFormatValue(fmt, parts.rows[i][j])])])
    IN  IF fmt.with_names /\ parts.names = None THEN Err
        ELSE IF fmt.with_types /\ parts.types = None THEN Err
        ELSE Ok(names \o types \o rows)

\* row.split('\t').map(Type::from_str).collect::<Result<Vec<Type>, Error>>()
RECURSIVE TsvParseTypes(_, _)
TsvParseTypes(cells, types) ==
    IF Len(cells) = 0 THEN Ok(types)
    ELSE LET push(ty) ==
                 IF ~ty.ok THEN Err ELSE TsvParseTypes(Tail(cells), Append(types, ty.val))
         IN  push(TypeFromStr(cells[1]))

\* for (i, value) in row_str.split('\t').enumerate(): types.get(i) or an
\* error, then parse_value
RECURSIVE TsvParseRow(_, _, _, _)
TsvParseRow(fmt, cells, types, row) ==
    IF Len(cells) = 0 THEN Ok(row)
    ELSE IF Len(row) + 1 > Len(types) THEN Err
    ELSE LET push(value) ==
                 IF ~value.ok THEN value
                 ELSE TsvParseRow(fmt, Tail(cells), types, Append(row, value.val))
         IN  push(TsvParseValue(fmt, cells[1], types[Len(row) + 1]))

\* for row_str in rows { if row_str.is_empty() { break; } ... add_row }
RECURSIVE TsvParseRows(_, _, _, _, _)
TsvParseRows(fmt, rows, types, data, dbg) ==
    IF Len(rows) = 0 THEN Ok(data)
    ELSE IF Len(rows[1]) = 0 THEN Ok(data)
    ELSE LET next(added) ==
                 IF ~added.ok THEN added
                 ELSE TsvParseRows(fmt, Tail(rows), types, added.val, dbg)
             push(row) ==
                 IF ~row.ok THEN row ELSE next(add_row(data, row.val, dbg))
         IN  push(TsvParseRow(fmt, Split(rows[1], chTab), types, <<>>))

\* TsvFormatter::parse_data; mapping is an Option of <<name, Type>>s
TsvParseData(fmt, value, mapping, dbg) ==
    LET with_types(rows, names, types) ==
            IF ~types.ok THEN Err
            ELSE IF Len(names) > Len(types.val) THEN Panic     \* types[i]
            ELSE OkRest(with_names_and_types(
                            [i \in 1..Len(names) |-> <<names[i], types.val[i]>>]),
                        Tail(Tail(rows)))
        with_header(rows, names) ==
            IF ~fmt.with_types THEN OkRest(with_names(names), Tail(rows))
            ELSE IF Len(rows) < 2 THEN Err
            ELSE with_types(rows, names, TsvParseTypes(Split(rows[2], chTab), <<>>))
        header(rows) ==
            IF ~fmt.with_names THEN OkRest(no_headers, rows)
            ELSE with_header(rows, Split(rows[1], chTab))
        types_of(data) ==
            IF get_types(data) # None THEN get_types(data)
            ELSE IF mapping # None
                 THEN Some([i \in 1..Len(mapping[1]) |-> mapping[1][i][2]])
            ELSE None
        parse_rows(hd, tys) ==
            IF tys = None THEN Err
            ELSE TsvParseRows(fmt, hd.rest, tys[1], hd.val, dbg)
        body(hd) ==
            IF ~hd.ok THEN hd ELSE parse_rows(hd, types_of(hd.val))
    IN  body(header(Split(value, chNewline)))

\* Formatter::deserialize_query_data of TsvFormatter
TsvDeserializeQueryData(fmt, bytes, mapping, dbg) ==
    IF ~Utf8Valid(bytes) THEN Err ELSE TsvParseData(fmt, bytes, mapping, dbg)

(***************************************************************************)
(* Format and the Formatter it selects (query/fmt/mod.rs)                  *)
(***************************************************************************)
TsvFormats == {"TabSep", "TabSepdRaw", "TabSepWithNames", "TabSepWithNamesAndTypes"}
RowBinFormats == {"RowBinary", "RowBinaryWithNames", "RowBinaryWithNamesAndTypes"}

\* Format::formatter, for the formats of the two codecs
formatter(format) ==
    CASE format = "TabSep" -> [codec |-> "tsv", fmt |-> TsvDefault]
      [] format = "TabSepdRaw" ->
            [codec |-> "tsv", fmt |-> [raw |-> TRUE, with_names |-> FALSE, with_types |-> FALSE]]
      [] format = "TabSepWithNames" -> [codec |-> "tsv", fmt |-> TsvNames]
      [] format = "TabSepWithNamesAndTypes" -> [codec |-> "tsv", fmt |-> TsvNamesAndTypes]
      [] format = "RowBinary" -> [codec |-> "rowbin", fmt |-> RowBinPlain]
      [] format = "RowBinaryWithNames" -> [codec |-> "rowbin", fmt |-> RowBinNames]
      [] format = "RowBinaryWithNamesAndTypes" -> [codec |-> "rowbin", fmt |-> RowBinNamesAndTypes]

\* Formatter::deserialize_value of the two formatters
deserialize_value(f, bytes, ty) ==
    IF f.codec = "rowbin" THEN RowBinDeserializeValue(bytes, ty)
    ELSE IF ~Utf8Valid(bytes) THEN Err
    ELSE TsvParseValue(f.fmt, bytes, ty)

\* Formatter::deserialize_query_data of the two formatters
deserialize_query_data(f, bytes, mapping, dbg) ==
    IF f.codec = "rowbin" THEN RowBinParseData(f.fmt, bytes, mapping, dbg)
    ELSE TsvDeserializeQueryData(f.fmt, bytes, mapping, dbg)

\* QueryData::from_bytes
from_bytes(bytes, format, mapping, dbg) ==
    deserialize_query_data(formatter(format), bytes, mapping, dbg)

\* how a call ended
Outcome(r) ==
    IF r.ok THEN "ok" ELSE IF r.panic THEN "panic" ELSE IF IsHang(r) THEN "hang" ELSE "err"

(***************************************************************************)
(* The Values of the model, by Type                                        *)
(***************************************************************************)
MaxArrayLen == 2     \* elements of an Array value, entries of a Map value
MaxValueDepth == 1   \* nesting depth of the types values are drawn for

\* String values: empty, plain, and with the characters the text codec
\* treats specially
StrValues == {S(""), S("a"), S("a b"), S("a,b"), S("\\n"), S("N")}

IntSamples(tag) ==
    {0, 1}
        \union (IF IntSigned(tag) THEN {-1} ELSE {})
        \union (CASE tag = "UInt8" -> {U8Max}
                  [] tag = "Int8" -> {I8Min, I8Max}
                  [] tag = "UInt16" -> {U16Max}
                  [] tag = "Int16" -> {I16Min}
                  [] OTHER -> {300})

WideSamples(tag) ==
    {[i \in 1..WideWidth(tag) |-> 0], [i \in 1..WideWidth(tag) |-> i]}

SeqsFrom0(X, n) == UNION {[1..k -> X] : k \in 0..n}

\* the HashMaps with keys in K and values in X, in every iteration order
MapsOver(K, X, n) ==
    {m \in SeqsFrom0(K \X X, n) : \A i, j \in 1..Len(m) : i # j => m[i][1] # m[j][1]}

RECURSIVE ValuesOf(_)
ValuesOf(t) ==
    IF t.tag \in {"Enum8", "Enum16"} THEN
        {V(t.tag, t.variants[i][2]) : i \in 1..Len(t.variants)}
    ELSE IF t.tag \in IntTags THEN {V(t.tag, n) : n \in IntSamples(t.tag)}
    ELSE IF t.tag \in WideTags THEN {V(t.tag, b) : b \in WideSamples(t.tag)}
    ELSE IF t.tag = "Bool" THEN {V("Bool", b) : b \in BOOLEAN}
    ELSE IF t.tag = "String" THEN {V("String", str) : str \in StrValues}
    ELSE IF t.tag = "Array" THEN
        {V("Array", vs) : vs \in SeqsFrom0(ValuesOf(t.elem), MaxArrayLen)}
    ELSE IF t.tag = "Tuple" THEN
        {V("Tuple", vs) :
            vs \in {f \in [1..Len(t.types) -> UNION {ValuesOf(t.types[i]) : i \in 1..Len(t.types)}] :
                      \A i \in 1..Len(t.types) : f[i] \in ValuesOf(t.types[i])}}
    ELSE IF t.tag = "Map" THEN
        {V("Map", m) : m \in MapsOver({strA, strB}, ValuesOf(t.val), MaxArrayLen)}
    ELSE IF t.tag = "Nested" THEN
        {V("Nested", m) :
            m \in MapsOver({t.fields[i][1] : i \in 1..Len(t.fields)},
                           UNION {ValuesOf(t.fields[i][2]) : i \in 1..Len(t.fields)},
                           Len(t.fields))}
    ELSE IF IsNullableType(t) THEN
        IF NonNullableType(t).tag \in DecimalNNames \union {"Decimal", "FixedString"}
        THEN {}
        ELSE {V(t.tag, None)}
                \union {V(t.tag, Some(x.inner)) : x \in ValuesOf(NonNullableType(t))}
    ELSE {}   \* Decimal.., FixedString: no Value variant satisfies them

\* types with members nested two deep
DeepTypes ==
    {TArray(TArray(T("UInt8"))), TTuple(<<TArray(T("UInt8")), T("String")>>),
     TMap(T("String"), TArray(T("UInt8")))}

ValueTypes(d) == TypesOfDepth(d) \union DeepTypes

\* the (Value, Type) pairs where the value satisfies the type
TypedValues(types) ==
    UNION {{[value |-> v, ty |-> t] : v \in {x \in ValuesOf(t) : IsSameTypeAs(x, t)}} :
              t \in types}

\* the types the TabSeparated model covers
RECURSIVE TsvModelled(_)
TsvModelled(t) ==
    IF t.tag \in TsvIntTags \union {"Bool", "String", "FixedString"} THEN TRUE
    ELSE IF t.tag = "Array" THEN TsvModelled(t.elem)
    ELSE IF t.tag = "Tuple" THEN \A i \in 1..Len(t.types) : TsvModelled(t.types[i])
    ELSE IF t.tag = "Map" THEN TsvModelled(t.val)
    ELSE IF t.tag = "Nested" THEN \A i \in 1..Len(t.fields) : TsvModelled(t.fields[i][2])
    ELSE IF IsNullableType(t) THEN TsvModelled(NonNullableType(t))
    ELSE FALSE

(***************************************************************************)
(* The strings and the tables of the model                                 *)
(***************************************************************************)
MaxStrLen == 3    \* characters of a string given to escape
MaxCols == 2      \* columns of a table
MaxRows == 2      \* rows of a table

\* the characters escape and unescape treat specially, and plain ones
EscapeAlphabet == {chBackslash, chSpace, chTab, chQuote, 97, 98, 110, 116}

\* the column names "a", "b", ..
ColumnNames(n) == [i \in 1..n |-> <<96 + i>>]

\* the rows whose cells are values of the given types, column by column
RECURSIVE RowsFor(_)
RowsFor(types) ==
    IF Len(types) = 0 THEN {<<>>}
    ELSE {<<v>> \o r : v \in ValuesOf(types[1]), r \in RowsFor(Tail(types))}

\* with_names_and_types(..).rows(..) for every choice of up to cols columns
\* of the given types and up to rws rows that satisfy them
TablesWithTypes(types, cols, rws) ==
    UNION {{add_rows(with_names_and_types([i \in 1..Len(ts) |-> <<ColumnNames(Len(ts))[i], ts[i]>>]),
                     rows, TRUE).val :
                rows \in SeqsFrom0(RowsFor(ts), rws)} :
              ts \in SeqsFrom0(types, cols)}

\* column types of the tables that are serialized
TableTypes ==
    {T("UInt8"), T("String"), T("NullableUInt8"), TEnum8(<<<<strA, 0>>, <<strB, 1>>>>)}

(***************************************************************************)
(* The inputs given to the decoders                                        *)
(***************************************************************************)
MaxInputLen == 3   \* bytes of an arbitrary input buffer

\* bytes of RowBinary inputs: counts, lengths, a letter, a byte above 0x7F
RowBinBytes == {0, 1, 2, 97, 255}
\* characters of TabSeparated inputs: 1, a, tab, newline, comma, brackets
TsvChars == {49, 97, chTab, chNewline, chComma, 91, 93}

Prefixes(b) == {Take(b, k) : k \in 0..Len(b)}

\* RowBinaryWithNamesAndTypes as a server sends it: one count, the names,
\* the type strings, the rows
ServerRowBin(data) ==
    Leb128Write(Len(data.names_and_types))
        \o Concat([i \in 1..Len(data.names_and_types) |->
                      RowBinFormatString(data.names_and_types[i][1])])
        \o Concat([i \in 1..Len(data.names_and_types) |->
                      RowBinFormatString(TypeToString(data.names_and_types[i][2]))])
        \o Concat([i \in 1..Len(data.rows) |->
                      Concat([j \in 1..Len(data.rows[i]) |-> RowBinFormatValue(data.rows[i][j])])])

\* a table of one Decimal(6,2) column: the header, and four bytes of a row
DecimalHeader ==
    ServerRowBin(with_names_and_types(<<<<strA, TDecimal(6, 2)>>>>)) \o <<1, 0, 0, 0>>

\* the mappings a caller supplies
Mappings ==
    {None, Some(<<>>), Some(<<<<strA, T("UInt8")>>>>),
     Some(<<<<strA, T("UInt8")>>, <<strB, T("String")>>>>),
     Some(<<<<strA, TDecimal(6, 2)>>>>)}

\* tables whose encodings, whole and truncated, are given to the decoders
WireTables(cols) == TablesWithTypes({T("UInt8"), T("String")}, cols, 1)

RowBinInputs(n) ==
    SeqsFrom0(RowBinBytes, n)
        \union UNION {Prefixes(ServerRowBin(t)) : t \in WireTables(MaxCols)}
        \union Prefixes(DecimalHeader)

TsvInputs(n) ==
    SeqsFrom0(TsvChars, n)
        \union UNION {Prefixes(TsvFormatData(TsvNamesAndTypes, t).val) : t \in WireTables(MaxCols)}

\* types values are decoded against
DecodeTypes ==
    LeafTypes \union {TArray(T("UInt8")), TTuple(<<T("UInt8"), T("String")>>),
                      TMap(T("String"), T("UInt8")), TNested(<<<<strA, T("UInt8")>>>>),
                      TArray(TDecimal(6, 2))}

\* type strings: the text of every type, whole and truncated
TypeStrings(d) == UNION {Prefixes(TypeToString(t)) : t \in TypesOfDepth(d)}

\* the entry lists of enum type strings: none, one or two entries, with
\* names and indices that repeat
EnumEntryLists == SeqsFrom0({strA, strB} \X {0, 1}, 2)

\* the type string "Enum8('a' = 0, 'b' = 1)" of an entry list
EnumText(kw, entries) == kw \o Join(EnumEntriesToString(entries), kwSep) \o kwClose

\* the types written inside "Nullable(...)", and what is written after it
NullableInners ==
    {T("UInt8"), T("String"), TFixedString(2), TDecimal(6, 2), TEnum8(<<<<strA, 0>>>>),
     TArray(T("UInt8")), TArray(T("NullableUInt8")), TTuple(<<T("UInt8"), T("String")>>),
     TMap(T("String"), T("UInt8")), TNested(<<<<strA, T("UInt8")>>>>)}

NullableTails == {S(""), S("x"), S(")"), S(" "), S(")x"), S(", UInt8)"), S("Nullable(UInt8)")}

\* the type string "Nullable(<inner>)<tail>"
NullableText(inner, tail) == kwNullable \o TypeToString(inner) \o kwClose \o tail

\* what is written between the parentheses of "DateTime64(...)"
PrecisionArgs ==
    {S("0"), S("3"), S("9"), S("10"), S("12"), S("255"), S("256"), S("-1"), S("a"),
     S(""), S("3, 4"), S("3,"), S(" 3 "), S("+3"), S("03"), S("3.0")}

DecodeInputs(n) ==
    {[op |-> "value", format |-> "RowBinary", bytes |-> b, ty |-> t] :
        b \in SeqsFrom0(RowBinBytes, n), t \in DecodeTypes}
    \union
    {[op |-> "value", format |-> "TabSep", bytes |-> b, ty |-> t] :
        b \in SeqsFrom0(TsvChars, n), t \in {x \in DecodeTypes : TsvModelled(x)}}
    \union
    {[op |-> "table", format |-> f, bytes |-> b, mapping |-> m] :
        f \in RowBinFormats, b \in RowBinInputs(n), m \in Mappings}
    \union
    {[op |-> "table", format |-> f, bytes |-> b, mapping |-> m] :
        f \in TsvFormats \ {"TabSepdRaw"}, b \in TsvInputs(n),
        m \in {x \in Mappings : x = None \/ \A i \in 1..Len(x[1]) : TsvModelled(x[1][i][2])}}
    \union
    {[op |-> "type", bytes |-> b] : b \in TypeStrings(1)}
    \union
    {[op |-> "type", bytes |-> EnumText(kw, e), entries |-> e] :
        kw \in {kwEnum8, kwEnum16}, e \in EnumEntryLists}
    \union
    {[op |-> o, bytes |-> NullableText(t, g), inner |-> t, tail |-> g] :
        o \in {"type", "core_type"}, t \in NullableInners, g \in NullableTails}
    \union
    {[op |-> "type", bytes |-> kwDateTime64 \o a \o kwClose, precision |-> a] :
        a \in PrecisionArgs}

(***************************************************************************)
(* The cells, rows and buffers of the QueryData state machine              *)
(***************************************************************************)
CellTypes == {T("UInt8"), T("String")}
CellValues == {V("UInt8", 1), V("String", strA)}

\* rows of any width up to MaxCols, of any of the cell values
AnyRows == SeqsFrom0(CellValues, MaxCols)

\* buffers a server answers with: a whole table, and rows cut short
AnswerInputs ==
    {[format |-> "TabSepWithNamesAndTypes", mapping |-> None,
      bytes |-> S("a") \o <<chTab>> \o S("b") \o <<chNewline>>
                \o S("UInt8") \o <<chTab>> \o S("String") \o <<chNewline>>
                \o S("1") \o <<chTab>> \o S("a") \o <<chNewline>>],
     [format |-> "TabSep", mapping |-> Some(<<<<strA, T("UInt8")>>, <<strB, T("String")>>>>),
      bytes |-> S("1") \o <<chNewline>>],
     [format |-> "TabSepWithNames", mapping |-> Some(<<<<strA, T("UInt8")>>>>),
      bytes |-> S("a") \o <<chTab>> \o S("b") \o <<chNewline>> \o S("1") \o <<chNewline>>],
     [format |-> "RowBinaryWithNamesAndTypes", mapping |-> None,
      bytes |-> ServerRowBin([kind |-> "WithNamesAndTypes",
                              names_and_types |-> <<<<strA, T("UInt8")>>>>,
                              rows |-> <<<<V("UInt8", 1)>>>>])],
     [format |-> "RowBinary", mapping |-> Some(<<<<strA, T("UInt8")>>>>),
      bytes |-> <<1, 1>>],
     [format |-> "RowBinary", mapping |-> None, bytes |-> <<1>>]}

(***************************************************************************)
(* SpecType: a Type is formatted (Display) and the text parsed (FromStr)   *)
(***************************************************************************)
TypeInit ==
    /\ pc = "start"
    /\ arg \in TypesOfDepth(MaxTypeDepth)
    /\ wire = <<>>
    /\ res = Null
    /\ table = Null
    /\ debug_assertions \in BOOLEAN
    /\ outcome = "none"

\* ty.to_string()
to_string ==
    /\ pc = "start"
    /\ wire' = TypeToString(arg)
    /\ pc' = "formatted"
    /\ UNCHANGED <<arg, res, table, debug_assertions, outcome>>

\* ty_str.parse::<Type>()
from_str ==
    /\ pc = "formatted"
    /\ res' = TypeFromStr(wire)
    /\ pc' = "parsed"
    /\ UNCHANGED <<arg, wire, table, debug_assertions, outcome>>

TypeNext == to_string \/ from_str

SpecType == TypeInit /\ [][TypeNext]_vars

\* C4: for every constructible Type t, parsing the text that formatting t
\* produced returns exactly t
C4_TypeRoundTrip == pc = "parsed" => res = Ok(arg)

(***************************************************************************)
(* SpecRowBinValue: a Value that satisfies a Type is formatted by          *)
(* RowBinFormatter and the bytes are parsed against the Type               *)
(***************************************************************************)
RowBinValueInit ==
    /\ pc = "start"
    /\ arg \in TypedValues(ValueTypes(MaxValueDepth))
    /\ wire = <<>>
    /\ res = Null
    /\ table = Null
    /\ debug_assertions \in BOOLEAN
    /\ outcome = "none"

\* formatter.format_value(value)
rowbin_format_value ==
    /\ pc = "start"
    /\ wire' = RowBinFormatValue(arg.value)
    /\ pc' = "formatted"
    /\ UNCHANGED <<arg, res, table, debug_assertions, outcome>>

\* formatter.parse_value(&mut bytes, ty)
rowbin_parse_value ==
    /\ pc = "formatted"
    /\ res' = RowBinParseValue(wire, arg.ty)
    /\ pc' = "parsed"
    /\ UNCHANGED <<arg, wire, table, debug_assertions, outcome>>

RowBinValueNext == rowbin_format_value \/ rowbin_parse_value

SpecRowBinValue == RowBinValueInit /\ [][RowBinValueNext]_vars

\* C2: RowBinary decoding of the encoding of a value against its type
\* returns the value and consumes exactly the encoded bytes
C2_RowBinRoundTrip ==
    pc = "parsed" => res.ok /\ ValueEq(res.val, arg.value) /\ res.rest = <<>>

(***************************************************************************)
(* SpecTsvValue: the same through TsvFormatter::default()                  *)
(***************************************************************************)
TsvValueInit ==
    /\ pc = "start"
    /\ arg \in TypedValues({t \in ValueTypes(MaxValueDepth) : TsvModelled(t)})
    /\ wire = <<>>
    /\ res = Null
    /\ table = Null
    /\ debug_assertions \in BOOLEAN
    /\ outcome = "none"

\* formatter.format_value(value)
tsv_format_value ==
    /\ pc = "start"
    /\ wire' = TsvFormatValue(TsvDefault, arg.value)
    /\ pc' = "formatted"
    /\ UNCHANGED <<arg, res, table, debug_assertions, outcome>>

\* formatter.parse_value(&value_str, ty)
tsv_parse_value ==
    /\ pc = "formatted"
    /\ res' = TsvParseValue(TsvDefault, wire, arg.ty)
    /\ pc' = "parsed"
    /\ UNCHANGED <<arg, wire, table, debug_assertions, outcome>>

TsvValueNext == tsv_format_value \/ tsv_parse_value

SpecTsvValue == TsvValueInit /\ [][TsvValueNext]_vars

\* C3: TabSeparated decoding of the encoding of a value against its
\* (non-Decimal) type returns the value
C3_TsvRoundTrip == pc = "parsed" => res.ok /\ ValueEq(res.val, arg.value)

(***************************************************************************)
(* SpecEscape: a string is escaped and the result unescaped                *)
(***************************************************************************)
EscapeInit ==
    /\ pc = "start"
    /\ arg \in SeqsFrom0(EscapeAlphabet, MaxStrLen)
    /\ wire = <<>>
    /\ res = Null
    /\ table = Null
    /\ debug_assertions \in BOOLEAN
    /\ outcome = "none"

\* s.escape()
tsv_escape ==
    /\ pc = "start"
    /\ wire' = escape(arg)
    /\ pc' = "formatted"
    /\ UNCHANGED <<arg, res, table, debug_assertions, outcome>>

\* s.unescape()
tsv_unescape ==
    /\ pc = "formatted"
    /\ res' = unescape(wire)
    /\ pc' = "parsed"
    /\ UNCHANGED <<arg, wire, table, debug_assertions, outcome>>

EscapeNext == tsv_escape \/ tsv_unescape

SpecEscape == EscapeInit /\ [][EscapeNext]_vars

\* C6: for every string s, unescape(escape(s)) = s
C6_EscapeRoundTrip == pc = "parsed" => res = arg

(***************************************************************************)
(* SpecRowBinTable: a table with names and types is serialized by          *)
(* RowBinFormatter::with_names_and_types() and deserialized by the same    *)
(* formatter without a mapping                                             *)
(***************************************************************************)
RowBinTableInit ==
    /\ pc = "start"
    /\ arg \in TablesWithTypes(TableTypes, MaxCols, MaxRows)
    /\ wire = <<>>
    /\ res = Null
    /\ table = Null
    /\ debug_assertions \in BOOLEAN
    /\ outcome = "none"

\* formatter.format_data(data)
rowbin_format_data ==
    /\ pc = "start"
    /\ RowBinFormatData(RowBinNamesAndTypes, arg).ok
    /\ wire' = RowBinFormatData(RowBinNamesAndTypes, arg).val
    /\ pc' = "formatted"
    /\ UNCHANGED <<arg, res, table, debug_assertions, outcome>>

\* formatter.parse_data(&mut bytes, None)
rowbin_parse_data ==
    /\ pc = "formatted"
    /\ res' = RowBinParseData(RowBinNamesAndTypes, wire, None, debug_assertions)
    /\ pc' = "parsed"
    /\ UNCHANGED <<arg, wire, table, debug_assertions, outcome>>

RowBinTableNext == rowbin_format_data \/ rowbin_parse_data

SpecRowBinTable == RowBinTableInit /\ [][RowBinTableNext]_vars

\* C1: a table with names and types, serialized as RowBinary with names and
\* types and deserialized without a mapping, equals the original table
C1_RowBinTableRoundTrip == pc = "parsed" => res.ok /\ QueryDataEq(res.val, arg)

(***************************************************************************)
(* SpecTsvTable: the same through TsvFormatter::with_names_and_types()     *)
(***************************************************************************)
TsvTableInit ==
    /\ pc = "start"
    /\ arg \in TablesWithTypes(TableTypes, MaxCols, MaxRows)
    /\ wire = <<>>
    /\ res = Null
    /\ table = Null
    /\ debug_assertions \in BOOLEAN
    /\ outcome = "none"

\* formatter.format_data(data)
tsv_format_data ==
    /\ pc = "start"
    /\ TsvFormatData(TsvNamesAndTypes, arg).ok
    /\ wire' = TsvFormatData(TsvNamesAndTypes, arg).val
    /\ pc' = "formatted"
    /\ UNCHANGED <<arg, res, table, debug_assertions, outcome>>

\* formatter.parse_data(&value, None)
tsv_parse_data ==
    /\ pc = "formatted"
    /\ res' = TsvParseData(TsvNamesAndTypes, wire, None, debug_assertions)
    /\ pc' = "parsed"
    /\ UNCHANGED <<arg, wire, table, debug_assertions, outcome>>

TsvTableNext == tsv_format_data \/ tsv_parse_data

SpecTsvTable == TsvTableInit /\ [][TsvTableNext]_vars

\* C5: a table with names and types whose rows satisfy the column types,
\* serialized as TabSeparated with names and types and deserialized without
\* a mapping, equals the original table
C5_TsvTableRoundTrip == pc = "parsed" => res.ok /\ QueryDataEq(res.val, arg)

(***************************************************************************)
(* SpecDecode: a decoder is given an input buffer                          *)
(***************************************************************************)
DecodeInit ==
    /\ pc = "start"
    /\ arg \in DecodeInputs(MaxInputLen)
    /\ wire = arg.bytes
    /\ res = Null
    /\ table = Null
    /\ debug_assertions \in BOOLEAN
    /\ outcome = "none"

\* formatter.deserialize_value(bytes, ty)
call_deserialize_value ==
    /\ pc = "start"
    /\ arg.op = "value"
    /\ res' = deserialize_value(formatter(arg.format), wire, arg.ty)
    /\ outcome' = Outcome(res')
    /\ pc' = "decoded"
    /\ UNCHANGED <<arg, wire, table, debug_assertions>>

\* formatter.deserialize_query_data(bytes, mapping)
call_deserialize_query_data ==
    /\ pc = "start"
    /\ arg.op = "table"
    /\ res' = deserialize_query_data(formatter(arg.format), wire, arg.mapping,
                                     debug_assertions)
    /\ outcome' = Outcome(res')
    /\ pc' = "decoded"
    /\ UNCHANGED <<arg, wire, table, debug_assertions>>

\* Type::from_str(s)
call_from_str ==
    /\ pc = "start"
    /\ arg.op = "type"
    /\ res' = TypeFromStr(wire)
    /\ outcome' = Outcome(res')
    /\ pc' = "decoded"
    /\ UNCHANGED <<arg, wire, table, debug_assertions>>

\* core::Type::from_str(s), for a string that starts with "Nullable"
call_core_from_str ==
    /\ pc = "start"
    /\ arg.op = "core_type"
    /\ res' = core_from_str(wire)
    /\ outcome' = Outcome(res')
    /\ pc' = "decoded"
    /\ UNCHANGED <<arg, wire, table, debug_assertions>>

DecodeNext ==
    \/ call_deserialize_value
    \/ call_deserialize_query_data
    \/ call_from_str
    \/ call_core_from_str

SpecDecode == DecodeInit /\ [][DecodeNext]_vars

\* the types the rows of a decoded table were parsed against
RowTypes(data, mapping) ==
    IF get_types(data) # None THEN get_types(data)[1]
    ELSE [i \in 1..Len(mapping[1]) |-> mapping[1][i][2]]

\* C7: every decoding of a value, a table or a type string returns a value
\* or an error, it never panics, whatever the input
C7_NoPanic == pc = "decoded" => outcome # "panic"

\* C8: a table decode that returns a QueryData returns whole rows: every
\* row has a cell for every column it was decoded against
C8_NoPartialRows ==
    (pc = "decoded" /\ arg.op = "table" /\ res.ok) =>
        \A i \in 1..Len(res.val.rows) :
            Len(res.val.rows[i]) = Len(RowTypes(res.val, arg.mapping))

(***************************************************************************)
(* Spec: a QueryData is constructed, or decoded from a buffer, and rows    *)
(* are appended to it.  A panic ends the run.                              *)
(***************************************************************************)
Init ==
    /\ pc = "start"
    /\ arg = <<>>
    /\ wire = <<>>
    /\ res = Null
    /\ table = Null
    /\ debug_assertions \in BOOLEAN
    /\ outcome = "none"

\* QueryData::no_headers()
call_no_headers ==
    /\ pc = "start"
    /\ table' = no_headers
    /\ pc' = "no_headers"
    /\ outcome' = "ok"
    /\ UNCHANGED <<arg, wire, res, debug_assertions>>

\* QueryData::with_names(names)
call_with_names ==
    /\ pc = "start"
    /\ \E n \in 0..MaxCols : table' = with_names(ColumnNames(n))
    /\ pc' = "with_names"
    /\ outcome' = "ok"
    /\ UNCHANGED <<arg, wire, res, debug_assertions>>

\* QueryData::with_names_and_types(names_and_types)
call_with_names_and_types ==
    /\ pc = "start"
    /\ \E ts \in SeqsFrom0(CellTypes, MaxCols) :
          table' = with_names_and_types(
                       [i \in 1..Len(ts) |-> <<ColumnNames(Len(ts))[i], ts[i]>>])
    /\ pc' = "with_names_and_types"
    /\ outcome' = "ok"
    /\ UNCHANGED <<arg, wire, res, debug_assertions>>

\* QueryData::from_bytes(bytes, format, mapping)
call_from_bytes ==
    /\ pc = "start"
    /\ \E input \in AnswerInputs :
          /\ wire' = input.bytes
          /\ res' = from_bytes(input.bytes, input.format, input.mapping, debug_assertions)
          /\ table' = IF res'.ok THEN res'.val ELSE Null
          /\ outcome' = Outcome(res')
    /\ pc' = "from_bytes"
    /\ UNCHANGED <<arg, debug_assertions>>

\* a table exists and the run has not ended
Running == table # Null /\ outcome = "ok"

\* data.row(row)
call_row ==
    /\ Running
    /\ n_rows(table) < MaxRows
    /\ \E row \in AnyRows :
          LET r == add_row(table, row, debug_assertions) IN
          /\ arg' = <<row>>
          /\ table' = IF r.ok THEN r.val ELSE table
          /\ outcome' = Outcome(r)
    /\ pc' = "row"
    /\ UNCHANGED <<wire, res, debug_assertions>>

\* data.add_row(row)
call_add_row ==
    /\ Running
    /\ n_rows(table) < MaxRows
    /\ \E row \in AnyRows :
          LET r == add_row(table, row, debug_assertions) IN
          /\ arg' = <<row>>
          /\ table' = IF r.ok THEN r.val ELSE table
          /\ outcome' = Outcome(r)
    /\ pc' = "add_row"
    /\ UNCHANGED <<wire, res, debug_assertions>>

\* data.rows(rows)
call_rows ==
    /\ Running
    /\ \E rows \in SeqsFrom0(AnyRows, MaxRows) :
          LET r == add_rows(table, rows, debug_assertions) IN
          /\ n_rows(table) + Len(rows) <= MaxRows
          /\ arg' = rows
          /\ table' = r.val
          /\ outcome' = Outcome(r)
    /\ pc' = "rows"
    /\ UNCHANGED <<wire, res, debug_assertions>>

\* data.add_rows(rows)
call_add_rows ==
    /\ Running
    /\ \E rows \in SeqsFrom0(AnyRows, MaxRows) :
          LET r == add_rows(table, rows, debug_assertions) IN
          /\ n_rows(table) + Len(rows) <= MaxRows
          /\ arg' = rows
          /\ table' = r.val
          /\ outcome' = Outcome(r)
    /\ pc' = "add_rows"
    /\ UNCHANGED <<wire, res, debug_assertions>>

Next ==
    \/ call_no_headers
    \/ call_with_names
    \/ call_with_names_and_types
    \/ call_from_bytes
    \/ call_row
    \/ call_add_row
    \/ call_rows
    \/ call_add_rows

Spec == Init /\ [][Next]_vars

Appended == pc \in {"row", "rows", "add_row", "add_rows"}

\* C9: every row of a QueryData is as wide as the table has columns, and an
\* append of a row of another width is rejected
C9_RowWidth ==
    table # Null =>
        /\ \A i \in 1..Len(table.rows) : Len(table.rows[i]) = n_cols(table)
        /\ (Appended /\ \E k \in 1..Len(arg) : Len(arg[k]) # n_cols(table))
              => outcome = "panic"

\* a cell of the row that has a declared column type and does not satisfy it
WrongTyped(names_and_types, row) ==
    \E i \in 1..Len(row) :
        /\ i <= Len(names_and_types)
        /\ ~IsSameTypeAs(row[i], names_and_types[i][2])

\* C10: in a build with debug assertions, every cell of a QueryData with
\* names and types satisfies is_same_type_as for the type of its column, and
\* an append of a row with a cell that does not is rejected by a panic
C10_TypedCells ==
    (debug_assertions /\ table # Null /\ table.kind = "WithNamesAndTypes") =>
        /\ \A i \in 1..Len(table.rows) : ~WrongTyped(table.names_and_types, table.rows[i])
        /\ (Appended /\ \E k \in 1..Len(arg) : WrongTyped(table.names_and_types, arg[k]))
              => outcome = "panic"

\* a typed table holds a row and add_row has just refused a row of the right
\* width with a cell of the wrong type
C10_Witness ==
    /\ debug_assertions
    /\ table # Null
    /\ table.kind = "WithNamesAndTypes"
    /\ Len(table.rows) >= 1
    /\ pc = "add_row"
    /\ outcome = "panic"
    /\ Len(arg[1]) = n_cols(table)
    /\ WrongTyped(table.names_and_types, arg[1])

\* a row that does not fit the declared columns of the table: another
\* width, or a cell that does not satisfy the type of its column
HeaderMismatch(data, row) ==
    /\ get_columns(data) # None
    /\ \/ Len(row) # Len(get_columns(data)[1])
       \/ data.kind = "WithNamesAndTypes" /\ WrongTyped(data.names_and_types, row)

\* C11: an append of a row that does not fit the declared columns (width
\* or cell type) ends with an error returned to the caller, and the table is
\* left as it was
C11_MismatchIsError ==
    [][(Appended' /\ \E k \in 1..Len(arg') : HeaderMismatch(table, arg'[k]))
          => (outcome' = "err" /\ table' = table)]_vars

\* a table just returned by a constructor
ConstructedEmpty == pc \in {"no_headers", "with_names", "with_names_and_types"}

\* every row is w wide, and so is the header when there is one
SharedWidth(data, w) ==
    /\ \A i \in 1..Len(data.rows) : Len(data.rows[i]) = w
    /\ get_columns(data) # None => Len(get_columns(data)[1]) = w

\* C12: a constructed table has no row; every row appended with row or
\* add_row adds one to n_rows, and n_cols is the width the appended rows
\* share (the header count when there is a header)
C12_Counts ==
    [][/\ ConstructedEmpty' => n_rows(table') = 0
       /\ (pc' \in {"row", "add_row"} /\ outcome' = "ok") =>
             /\ n_rows(table') = n_rows(table) + 1
             /\ \A w \in 0..MaxCols :
                   SharedWidth(table', w) => n_cols(table') = w]_vars

\* two rows of two cells were appended one at a time to a table without
\* headers
C12_Witness ==
    /\ pc = "add_row"
    /\ outcome = "ok"
    /\ table.kind = "NoHeaders"
    /\ n_rows(table) = MaxRows
    /\ SharedWidth(table, MaxCols)
    /\ n_cols(table) = MaxCols

(***************************************************************************)
(* core::Value (core/val.rs): a Value is [tag, inner]; the inner of a      *)
(* Nullable variant is an Option                                           *)
(***************************************************************************)
\* the variants as_nullable promotes
CorePromoted ==
    {"UInt8", "UInt16", "UInt32", "UInt64", "UInt128", "UInt256",
     "Int8", "Int16", "Int32", "Int64", "Int128", "Int256",
     "Float32", "Float64", "Decimal32", "Decimal64", "Decimal128",
     "Bool", "String", "FixedString", "Date", "Date32", "DateTime",
     "DateTime64", "UUID"}

CoreEnums == {"Enum8", "Enum16"}
CoreContainers == {"Array", "Map", "Nested"}

\* the Nullable variants of core::Value
CoreNullables == {"Nullable" \o n : n \in CorePromoted \union CoreEnums}

\* Value::as_nullable
as_nullable(self) ==
    IF self.tag \in CorePromoted
    THEN Some(V("Nullable" \o self.tag, Some(self.inner)))
    ELSE IF self.tag \in CoreEnums \union CoreContainers THEN None
    ELSE Some(self)

\* Value::as_non_nullable
as_non_nullable(self) ==
    IF self.tag \in CorePromoted \union CoreEnums \union CoreContainers
    THEN Some(self)
    ELSE IF self.inner = None THEN None
    ELSE Some(V(SubSeq(self.tag, 9, Len(self.tag)), self.inner[1]))

\* Value::null
null(ty) ==
    CASE ty.tag \in {"NullableDecimal", "NullableDecimal256", "NullableEnum"} ->
            Panic                                   \* unimplemented!()
      [] ty.tag = "NullableUInt256" -> Ok(Some(V("NullableInt8", None)))
      [] ty.tag \in CoreNullables -> Ok(Some(V(ty.tag, None)))
      [] OTHER -> Ok(None)

\* core::Type::Enum, and the core Types of the model
TCoreEnum(variants) == [tag |-> "Enum", variants |-> variants]

CoreTypes ==
    TypesOfDepth(1)
        \union {TCoreEnum(m) : m \in EnumMaps}
        \union {AsNullableType(TCoreEnum(m)) : m \in EnumMaps}

\* a core Type with a Nullable variant name
IsCoreNullable(ty) == StartsWith(ty.tag, "Nullable")

\* the payloads of the core Values of the model
CorePayloads(tag) ==
    CASE tag = "Bool" -> BOOLEAN
      [] tag \in {"String", "FixedString"} -> {S(""), strA}
      [] tag \in {"UInt256", "Int256", "UUID", "Float32", "Float64"} -> {<<0>>, <<1, 0>>}
      [] OTHER -> {0, 1}

\* the scalar Values, the empty containers, and the Nullable Values
CoreScalars ==
    UNION {{V(tag, x) : x \in CorePayloads(tag)} : tag \in CorePromoted \union CoreEnums}

CoreValues ==
    CoreScalars
        \union {V(tag, <<>>) : tag \in CoreContainers}
        \union {V("Nullable" \o v.tag, Some(v.inner)) : v \in CoreScalars}
        \union {V(tag, None) : tag \in CoreNullables}

(***************************************************************************)
(* SpecCoreValue: a Value is promoted with as_nullable, or the NULL of a   *)
(* Type is built with null, and the result is given to as_non_nullable     *)
(***************************************************************************)
CoreValueInit ==
    /\ pc = "start"
    /\ arg \in {[op |-> "value", v |-> v] : v \in CoreValues}
                 \union {[op |-> "type", ty |-> ty] : ty \in CoreTypes}
    /\ wire = None
    /\ res = Null
    /\ table = Null
    /\ debug_assertions \in BOOLEAN
    /\ outcome = "none"

\* v.as_nullable()
call_as_nullable ==
    /\ pc = "start"
    /\ arg.op = "value"
    /\ wire' = as_nullable(arg.v)
    /\ outcome' = "ok"
    /\ pc' = "as_nullable"
    /\ UNCHANGED <<arg, res, table, debug_assertions>>

\* Value::null(ty)
call_null ==
    /\ pc = "start"
    /\ arg.op = "type"
    /\ res' = null(arg.ty)
    /\ wire' = IF res'.ok THEN res'.val ELSE None
    /\ outcome' = Outcome(res')
    /\ pc' = "null"
    /\ UNCHANGED <<arg, table, debug_assertions>>

\* n.as_non_nullable(), for the Value the call before returned
call_as_non_nullable ==
    /\ pc \in {"as_nullable", "null"}
    /\ outcome = "ok"
    /\ wire # None
    /\ res' = as_non_nullable(wire[1])
    /\ pc' = "as_non_nullable"
    /\ UNCHANGED <<arg, wire, table, debug_assertions, outcome>>

CoreValueNext == call_as_nullable \/ call_null \/ call_as_non_nullable

SpecCoreValue == CoreValueInit /\ [][CoreValueNext]_vars

\* C13: for every Value v that is neither a container nor Nullable,
\* as_nullable(v) is Some, and as_non_nullable of it is Some(v)
C13_NullableSymmetry ==
    (arg.op = "value" /\ arg.v.tag \in CorePromoted \union CoreEnums) =>
        /\ pc = "as_nullable" => wire # None
        /\ pc = "as_non_nullable" => res = Some(arg.v)

\* C14: for every Nullable Type t, null(t) returns a Value with nothing in
\* it, and as_non_nullable of that Value is None
C14_NullIsAbsent ==
    (arg.op = "type" /\ IsCoreNullable(arg.ty)) =>
        /\ pc = "null" => (outcome = "ok" /\ wire # None /\ wire[1].inner = None)
        /\ pc = "as_non_nullable" => res = None

\* every cell of the rows of data satisfies the type at its place in types
CellsOfTypes(data, types) ==
    \A i \in 1..Len(data.rows) : \A j \in 1..Len(data.rows[i]) :
        j <= Len(types) /\ IsSameTypeAs(data.rows[i][j], types[j])

\* C15: a table decode without types in the format and without a mapping
\* returns an error; a decoded table has its cells of the types of the
\* header when the format carries types, of the mapping otherwise
C15_TypesSource ==
    (pc = "decoded" /\ arg.op = "table") =>
        /\ (~formatter(arg.format).fmt.with_types /\ arg.mapping = None)
              => outcome = "err"
        /\ (res.ok /\ formatter(arg.format).fmt.with_types) =>
              /\ get_types(res.val) # None
              /\ CellsOfTypes(res.val, get_types(res.val)[1])
        /\ (res.ok /\ ~formatter(arg.format).fmt.with_types) =>
              /\ arg.mapping # None
              /\ CellsOfTypes(res.val, [i \in 1..Len(arg.mapping[1]) |-> arg.mapping[1][i][2]])

\* a RowBinary deserialize_value has been called
RowBinValueDecoded == pc = "decoded" /\ arg.op = "value" /\ arg.format = "RowBinary"

\* C16: deserialize_value of RowBinFormatter returns an error when the
\* value of the type is decoded and bytes of the buffer are left
C16_TrailingBytes ==
    (/\ RowBinValueDecoded
     /\ RowBinParseValue(wire, arg.ty).ok
     /\ RowBinParseValue(wire, arg.ty).rest # <<>>) => outcome = "err"

\* a UInt8 was decoded from the first of two bytes and the call returned an
\* error
C16_Witness ==
    /\ RowBinValueDecoded
    /\ arg.ty = T("UInt8")
    /\ Len(wire) = 2
    /\ RowBinParseValue(wire, arg.ty).ok
    /\ outcome = "err"

\* the Nullable types parse_value decodes with impl_nullable!
RowBinNullable(ty) ==
    IsNullableType(ty) /\ NonNullableType(ty).tag \notin DecimalNNames \union {"Decimal"}

EnumParsed == pc = "decoded" /\ arg.op = "type" /\ "entries" \in DOMAIN arg

\* two entries of the list have the same name, or the same index
RepeatsEntry(entries) ==
    \E i, j \in 1..Len(entries) :
        i # j /\ (entries[i][1] = entries[j][1] \/ entries[i][2] = entries[j][2])

\* C18: parsing an Enum8(...) or Enum16(...) type string returns an error
\* when two entries have the same name or the same index, and when there is
\* no entry
C18_EnumEntries ==
    (EnumParsed /\ (Len(arg.entries) = 0 \/ RepeatsEntry(arg.entries)))
        => outcome = "err"

\* a "Nullable(<inner>)<tail>" type string has been parsed
NullableParsed ==
    pc = "decoded" /\ arg.op \in {"type", "core_type"} /\ "inner" \in DOMAIN arg

\* C19: parsing "Nullable(<inner>)<tail>" returns an error when the inner
\* type is an Array, Tuple, Map or Nested, and when the tail is not empty,
\* with Type::from_str of value/ty and of core/ty
C19_NullableStrict ==
    (/\ NullableParsed
     /\ arg.inner.tag \in {"Array", "Tuple", "Map", "Nested"} \/ arg.tail # <<>>)
        => outcome = "err"

(***************************************************************************)
(* SpecTsvCell: a present string cell written and read back by each of the *)
(* six TabSeparated formatters                                             *)
(***************************************************************************)
MaxCellLen == 2   \* characters of a string cell

TsvRaw == [raw |-> TRUE, with_names |-> FALSE, with_types |-> FALSE]
TsvRawNames == [raw |-> TRUE, with_names |-> TRUE, with_types |-> FALSE]
TsvRawNamesAndTypes == [raw |-> TRUE, with_names |-> TRUE, with_types |-> TRUE]

TsvFormatters ==
    {TsvDefault, TsvNames, TsvNamesAndTypes, TsvRaw, TsvRawNames, TsvRawNamesAndTypes}

\* the characters of the cells: backslash, N, b, a
CellChars == {chBackslash, 78, 98, 97}

\* the present string cells, as String and as NullableString
StringCells ==
    {[value |-> V("String", s), ty |-> T("String")] : s \in SeqsFrom0(CellChars, MaxCellLen)}
        \union
    {[value |-> V("NullableString", Some(s)), ty |-> T("NullableString")] :
        s \in SeqsFrom0(CellChars, MaxCellLen)}

TsvCellInit ==
    /\ pc = "start"
    /\ arg \in {[value |-> c.value, ty |-> c.ty, fmt |-> f] : c \in StringCells, f \in TsvFormatters}
    /\ wire = <<>>
    /\ res = Null
    /\ table = Null
    /\ debug_assertions \in BOOLEAN
    /\ outcome = "none"

\* formatter.format_value(value)
format_cell ==
    /\ pc = "start"
    /\ wire' = TsvFormatValue(arg.fmt, arg.value)
    /\ pc' = "formatted"
    /\ UNCHANGED <<arg, res, table, debug_assertions, outcome>>

\* formatter.parse_value(&value_str, Type::NullableString)
parse_cell ==
    /\ pc = "formatted"
    /\ res' = TsvParseValue(arg.fmt, wire, T("NullableString"))
    /\ outcome' = Outcome(res')
    /\ pc' = "parsed"
    /\ UNCHANGED <<arg, wire, table, debug_assertions>>

TsvCellNext == format_cell \/ parse_cell

SpecTsvCell == TsvCellInit /\ [][TsvCellNext]_vars

\* C20: the text a TabSeparated formatter, escaped or raw, writes for a
\* present string cell is never \N, and reading it back as a NullableString
\* never gives NULL
C20_NullReserved ==
    /\ pc \in {"formatted", "parsed"} => wire # NULL
    /\ pc = "parsed" => res.ok /\ res.val # V("NullableString", None)

\* the keys of a map in lexicographic order
KeysInOrder(map) == SortStrings([i \in 1..Len(map) |-> map[i][1]])

\* the text {'k1': v1, 'k2': v2} of a Map or Nested value, by key
BraceForm(fmt, value) ==
    S("{")
        \o Join([i \in 1..Len(value.inner) |->
                    <<chQuote>> \o KeysInOrder(value.inner)[i] \o <<chQuote>> \o S(": ")
                        \o TsvFormatValueIter(fmt,
                              MapGet(value.inner, KeysInOrder(value.inner)[i]), TRUE)],
                kwSep)
        \o S("}")

\* C21: the TabSeparated text of a Map or Nested value is the brace form
\* with the entries in key order, whatever the iteration order of the map
C21_SortedBraces ==
    (pc = "formatted" /\ arg.value.tag \in {"Map", "Nested"})
        => wire = BraceForm(TsvDefault, arg.value)

(***************************************************************************)
(* core::fmt::rowbin (core/fmt/rowbin/mod.rs): the UUID branches of        *)
(* RowBinFormatter::format and RowBinFormatter::parse                      *)
(***************************************************************************)
\* Formatter::format of a UUID: id.to_vec()
CoreRowBinFormat(value) == value.inner

\* Formatter::parse against Type::UUID: read_exact of 16 bytes
CoreRowBinParse(bytes, ty) ==
    IF Len(bytes) < 16 THEN Err
    ELSE OkRest(V("UUID", Take(bytes, 16)), Drop(bytes, 16))

(***************************************************************************)
(* SpecUuid: a UUID written and read back by the RowBinary formatter of    *)
(* query::fmt and by the one of core::fmt                                  *)
(***************************************************************************)
\* 64-bit halves of the UUIDs of the model, as big-endian bytes
HalfSamples ==
    {[i \in 1..8 |-> 0], [i \in 1..8 |-> i], [i \in 1..8 |-> 255],
     [i \in 1..8 |-> IF i = 1 THEN 1 ELSE 0], [i \in 1..8 |-> IF i = 8 THEN 1 ELSE 0],
     [i \in 1..8 |-> 16 * i + 7]}

UuidSamples == {hi \o lo : hi \in HalfSamples, lo \in HalfSamples}

UuidInit ==
    /\ pc = "start"
    /\ arg \in {[value |-> V("UUID", id), ty |-> T("UUID"), impl |-> m] :
                  id \in UuidSamples, m \in {"query", "core"}}
    /\ wire = <<>>
    /\ res = Null
    /\ table = Null
    /\ debug_assertions \in BOOLEAN
    /\ outcome = "none"

\* query::fmt::rowbin::RowBinFormatter::format_value(Value::UUID)
format_uuid ==
    /\ pc = "start"
    /\ arg.impl = "query"
    /\ wire' = RowBinFormatValue(arg.value)
    /\ pc' = "formatted"
    /\ UNCHANGED <<arg, res, table, debug_assertions, outcome>>

\* core::fmt::rowbin::RowBinFormatter::format(&Value::UUID)
core_format_uuid ==
    /\ pc = "start"
    /\ arg.impl = "core"
    /\ wire' = CoreRowBinFormat(arg.value)
    /\ pc' = "formatted"
    /\ UNCHANGED <<arg, res, table, debug_assertions, outcome>>

\* query::fmt::rowbin::RowBinFormatter::parse_value(.., Type::UUID)
parse_uuid ==
    /\ pc = "formatted"
    /\ arg.impl = "query"
    /\ res' = RowBinParseValue(wire, arg.ty)
    /\ outcome' = Outcome(res')
    /\ pc' = "parsed"
    /\ UNCHANGED <<arg, wire, table, debug_assertions>>

\* core::fmt::rowbin::RowBinFormatter::parse(.., Type::UUID)
core_parse_uuid ==
    /\ pc = "formatted"
    /\ arg.impl = "core"
    /\ res' = CoreRowBinParse(wire, arg.ty)
    /\ outcome' = Outcome(res')
    /\ pc' = "parsed"
    /\ UNCHANGED <<arg, wire, table, debug_assertions>>

UuidNext == format_uuid \/ core_format_uuid \/ parse_uuid \/ core_parse_uuid

SpecUuid == UuidInit /\ [][UuidNext]_vars

\* the little-endian bytes of the u64 whose big-endian bytes are half
U64Le(half) == [i \in 1..8 |-> half[9 - i]]

\* C22: the RowBinary bytes of a UUID are the little-endian bytes of its
\* high 64-bit half, then those of its low half, and decoding them gives
\* the UUID back
C22_UuidWords ==
    /\ pc \in {"formatted", "parsed"}
        => wire = U64Le(SubSeq(arg.value.inner, 1, 8)) \o U64Le(SubSeq(arg.value.inner, 9, 16))
    /\ pc = "parsed" => res.ok /\ res.val = arg.value

(***************************************************************************)
(* ChValue (value/mod.rs, value/core.rs, value/ext): a host value is       *)
(* V(host, x); an Option is None or Some(x); a Uuid is its 16 bytes; a    *)
(* Date is its count of days and a date time its count of nanoseconds      *)
(* since the UNIX epoch, both inside the range of the Value variant        *)
(***************************************************************************)
\* impl_ch_type!($TY, $CH_TY, $VAR): the host types and their variants
ImplChType ==
    [u8 |-> "UInt8", i8 |-> "Int8", bool |-> "Bool", String |-> "String",
     OptionU8 |-> "NullableUInt8", OptionBool |-> "NullableBool",
     OptionString |-> "NullableString"]

RECURSIVE into_ch_value(_, _)
\* ChValue::into_ch_value
into_ch_value(host, x) ==
    CASE host \in DOMAIN ImplChType -> V(ImplChType[host], x)
      [] host = "Uuid" -> V("UUID", x)
      [] host = "OptionUuid" ->
            IF x = None THEN V("UUID", [i \in 1..16 |-> 0]) ELSE V("UUID", x[1])
      [] host = "Date" -> V("Date32", x)
      [] host = "OptionDate" -> V("NullableDate32", x)
      [] host \in {"PrimitiveDateTime", "OffsetDateTime"} -> V("DateTime64", x)
      [] host = "OptionPrimitiveDateTime" ->
            IF x = None THEN V("NullableDateTime64", None)
            ELSE into_ch_value("PrimitiveDateTime", x[1])
      [] host = "OptionOffsetDateTime" ->
            IF x = None THEN V("NullableDateTime64", None)
            ELSE into_ch_value("OffsetDateTime", x[1])
      [] host = "VecU8" -> V("Array", [i \in 1..Len(x) |-> into_ch_value("u8", x[i])])
      [] host = "HashMapStringU8" ->
            V("Map", [i \in 1..Len(x) |-> <<x[i][1], into_ch_value("u8", x[i][2])>>])

RECURSIVE from_ch_value(_, _)
\* ChValue::from_ch_value
from_ch_value(host, value) ==
    CASE host \in DOMAIN ImplChType ->
            IF value.tag = ImplChType[host] THEN Ok(value.inner) ELSE Err
      [] host = "Uuid" -> IF value.tag = "UUID" THEN Ok(value.inner) ELSE Err
      [] host = "OptionUuid" ->
            IF value.tag = "NullableUUID" THEN Ok(value.inner) ELSE Err
      [] host = "Date" ->
            IF value.tag \in {"Date", "Date32"} THEN Ok(value.inner) ELSE Err
      [] host = "OptionDate" ->
            IF value.tag \in {"NullableDate", "NullableDate32"} THEN Ok(value.inner) ELSE Err
      [] host \in {"PrimitiveDateTime", "OffsetDateTime"} ->
            IF value.tag = "DateTime" THEN Ok(value.inner * NanosPerSecond)
            ELSE IF value.tag = "DateTime64" THEN Ok(value.inner)
            ELSE Err
      [] host \in {"OptionPrimitiveDateTime", "OptionOffsetDateTime"} ->
            IF value.tag = "NullableDateTime"
            THEN Ok(IF value.inner = None THEN None ELSE Some(value.inner[1] * NanosPerSecond))
            ELSE IF value.tag = "NullableDateTime64" THEN Ok(value.inner)
            ELSE Err
      [] host = "VecU8" ->
            IF value.tag # "Array" THEN Err
            ELSE IF \E i \in 1..Len(value.inner) : ~from_ch_value("u8", value.inner[i]).ok
            THEN Err
            ELSE Ok([i \in 1..Len(value.inner) |-> from_ch_value("u8", value.inner[i]).val])
      [] host = "HashMapStringU8" ->
            IF value.tag # "Map" THEN Err
            ELSE IF \E i \in 1..Len(value.inner) : ~from_ch_value("u8", value.inner[i][2]).ok
            THEN Err
            ELSE Ok([i \in 1..Len(value.inner) |->
                        <<value.inner[i][1], from_ch_value("u8", value.inner[i][2]).val>>])

\* Value::try_into::<T>
try_into(host, value) == from_ch_value(host, value)

\* the host values of the model, by host type
HostSamples(host) ==
    CASE host = "u8" -> {0, 1, U8Max}
      [] host = "i8" -> {I8Min, 0, I8Max}
      [] host = "bool" -> BOOLEAN
      [] host = "String" -> {S(""), strA, S("ab")}
      [] host = "OptionU8" -> {None, Some(0), Some(U8Max)}
      [] host = "OptionBool" -> {None, Some(TRUE), Some(FALSE)}
      [] host = "OptionString" -> {None, Some(S("")), Some(strA)}
      [] host = "Uuid" -> {[i \in 1..16 |-> 0], [i \in 1..16 |-> i]}
      [] host = "OptionUuid" -> {None, Some([i \in 1..16 |-> 0]), Some([i \in 1..16 |-> i])}
      [] host \in {"Date", "PrimitiveDateTime", "OffsetDateTime"} -> {-1, 0, 10}
      [] host \in {"OptionDate", "OptionPrimitiveDateTime", "OptionOffsetDateTime"} ->
            {None, Some(-1), Some(0), Some(10)}
      [] host = "VecU8" -> SeqsFrom0({0, 1}, MaxArrayLen)
      [] host = "HashMapStringU8" -> MapsOver({strA, strB}, {0, 1}, MaxArrayLen)

HostTypes ==
    DOMAIN ImplChType
        \union {"Uuid", "OptionUuid", "Date", "OptionDate", "PrimitiveDateTime",
                "OffsetDateTime", "OptionPrimitiveDateTime", "OptionOffsetDateTime",
                "VecU8", "HashMapStringU8"}

\* PartialEq of the host types: a HashMap by its entries
HostEq(host, a, b) ==
    IF host = "HashMapStringU8"
    THEN {a[i] : i \in 1..Len(a)} = {b[i] : i \in 1..Len(b)}
    ELSE a = b

ChValueInit ==
    /\ pc = "start"
    /\ arg \in UNION {{[value |-> V(h, x)] : x \in HostSamples(h)} : h \in HostTypes}
    /\ wire = <<>>
    /\ res = Null
    /\ table = Null
    /\ debug_assertions \in BOOLEAN
    /\ outcome = "none"

\* value.clone().into_ch_value()
call_into_ch_value ==
    /\ pc = "start"
    /\ res' = Ok(into_ch_value(arg.value.tag, arg.value.inner))
    /\ pc' = "converted"
    /\ UNCHANGED <<arg, wire, table, debug_assertions, outcome>>

\* value_ch.try_into::<T>()
call_try_into ==
    /\ pc = "converted"
    /\ res' = try_into(arg.value.tag, res.val)
    /\ outcome' = Outcome(res')
    /\ pc' = "back"
    /\ UNCHANGED <<arg, wire, table, debug_assertions>>

ChValueNext == call_into_ch_value \/ call_try_into

SpecChValue == ChValueInit /\ [][ChValueNext]_vars

\* C23: into_ch_value followed by try_into::<T> returns Ok of the value it
\* started from, for every host type
C23_HostRoundTrip ==
    pc = "back" => res.ok /\ HostEq(arg.value.tag, res.val, arg.value.inner)

\* the names a Nested type declares, in declared order
DeclaredNames(ty) == [i \in 1..Len(ty.fields) |-> ty.fields[i][1]]

\* a Nested value that holds exactly the declared fields of its type
NestedOfType(value, ty) ==
    /\ value.tag = "Nested"
    /\ ty.tag = "Nested"
    /\ MapKeys(value.inner) = {DeclaredNames(ty)[i] : i \in 1..Len(ty.fields)}
    /\ Len(value.inner) = Len(ty.fields)

\* C24: the RowBinary bytes of a Nested value are the encodings of the
\* values of the declared fields, in declared order and with nothing else,
\* and decoding them against the Nested type gives the value back
C24_NestedDeclaredOrder ==
    /\ (pc \in {"formatted", "parsed"} /\ NestedOfType(arg.value, arg.ty))
        => wire = Concat([i \in 1..Len(arg.ty.fields) |->
                            RowBinFormatValue(MapGet(arg.value.inner, DeclaredNames(arg.ty)[i]))])
    /\ (pc = "parsed" /\ NestedOfType(arg.value, arg.ty))
        => res.ok /\ ValueEq(res.val, arg.value) /\ res.rest = <<>>

(***************************************************************************)
(* SpecSameType: Value::Nested(m).is_same_type_as(&Type::Nested(fields))   *)
(***************************************************************************)
\* the Nested values of the check: HashMaps in every iteration order
NestedValues ==
    {V("Nested", m) :
        m \in MapsOver({strA, strB},
                       {V("UInt8", 0), V("UInt8", 1), V("String", strA)}, MaxArity)}

\* the Nested types of the check: one or two declared fields
NestedTypes ==
    {TNested(f) :
        f \in {g \in SeqsUpTo({strA, strB} \X {T("UInt8"), T("String")}, MaxArity) :
                 \A i, j \in 1..Len(g) : i # j => g[i][1] # g[j][1]}}

SameTypeInit ==
    /\ pc = "start"
    /\ arg \in {[value |-> v, ty |-> t] : v \in NestedValues, t \in NestedTypes}
    /\ wire = <<>>
    /\ res = Null
    /\ table = Null
    /\ debug_assertions \in BOOLEAN
    /\ outcome = "none"

\* value.is_same_type_as(&ty)
call_is_same_type_as ==
    /\ pc = "start"
    /\ res' = Ok(IsSameTypeAs(arg.value, arg.ty))
    /\ pc' = "checked"
    /\ UNCHANGED <<arg, wire, table, debug_assertions, outcome>>

SameTypeNext == call_is_same_type_as

SpecSameType == SameTypeInit /\ [][SameTypeNext]_vars

\* every key is a declared name and every value has the Type declared for
\* its own name
MatchesByName(value, ty) ==
    \A i \in 1..Len(value.inner) :
        \E j \in 1..Len(ty.fields) :
            /\ ty.fields[j][1] = value.inner[i][1]
            /\ IsSameTypeAs(value.inner[i][2], ty.fields[j][2])

\* C25: is_same_type_as of a Nested value against a Nested type is true
\* exactly when every key is declared and every value matches the Type of
\* its own field name
C25_NestedByName ==
    pc = "checked" => (res.val <=> MatchesByName(arg.value, arg.ty))

\* a "DateTime64(<argument>)" type string has been parsed
DateTime64Parsed == pc = "decoded" /\ arg.op = "type" /\ "precision" \in DOMAIN arg

\* C26: "DateTime64(p)" parses when p is one integer from 0 to 9, to the
\* type of that precision, and every other argument is a parse error
C26_PrecisionRange ==
    DateTime64Parsed =>
        IF ParseInt(Trim(arg.precision), 0, MaxPrecision).ok
        THEN outcome = "ok"
                /\ res.val = TDateTime64(ParseInt(Trim(arg.precision), 0, MaxPrecision).val)
        ELSE outcome = "err"

\* a RowBinary table has been decoded, or the decoder never returned
RowBinTableDecoded ==
    pc = "decoded" /\ arg.op = "table" /\ arg.format \in RowBinFormats

\* C27: RowBinary table decoding returns, whatever the buffer and the
\* column types are, a zero-column header or mapping included
C27_RowBinTerminates == RowBinTableDecoded => outcome # "hang"

\* C28: decoding the TabSeparated text of a table of one column or more
\* gives as many rows as the table has, a row written as an empty line and
\* the rows after it included
C28_TsvRowCount ==
    (pc = "parsed" /\ n_cols(arg) >= 1) => res.ok /\ n_rows(res.val) = n_rows(arg)

\* C29: null(t) is the absent Value of the variant named as t when t is a
\* Nullable Type, and None when t is any other Type
C29_NullVariant ==
    (pc = "null" /\ arg.op = "type") =>
        /\ outcome = "ok"
        /\ wire = IF IsCoreNullable(arg.ty) THEN Some(V(arg.ty.tag, None)) ELSE None

(***************************************************************************)
(* Query::bind, Query::bind_raw (query/mod.rs) and SqlStatement::bind_str  *)
(* (query/stmt.rs): wire is the statement, res the texts bound so far      *)
(***************************************************************************)
MaxBinds == 3   \* bind calls on one statement

QUERY_PARAM_KEY == S("??")
QUERY_PARAM_PLACEHOLDER == S("[??]")

\* str::replacen(pat, to, 1): the first match only
RECURSIVE ReplaceFirst(_, _, _)
ReplaceFirst(s, pat, to) ==
    IF Len(s) = 0 THEN <<>>
    ELSE IF StartsWith(s, pat) THEN to \o Drop(s, Len(pat))
    ELSE <<s[1]>> \o ReplaceFirst(Drop(s, 1), pat, to)

\* Query::replace_bind_symbol
replace_bind_symbol(statement, value) == ReplaceFirst(statement, QUERY_PARAM_KEY, value)

\* SqlStatement::bind_str for String
bind_str(statement, value) == ReplaceFirst(statement, QUERY_PARAM_PLACEHOLDER, value)

\* SqlFormatter::format of an integer and of a String
SqlFormat(value) ==
    IF value.tag = "String" THEN <<chQuote>> \o value.inner \o <<chQuote>>
    ELSE IntToString(value.inner)

\* the statements of the model: none to three placeholders
Statements(symbol) ==
    {S("a"), symbol, S("a") \o symbol, symbol \o S("a") \o symbol,
     S("a") \o symbol \o S(",") \o symbol \o S(",") \o symbol}

\* the texts bound unformatted, and the Values bound through the formatter
BindTexts == {S("1"), S(""), S("?"), S("??"), S("[??]"), S("a??")}
BindValues == {V("UInt8", 1), V("String", strA), V("String", S("??"))}

BindInit ==
    /\ pc = "start"
    /\ arg \in {[api |-> "Query", symbol |-> QUERY_PARAM_KEY, statement |-> s] :
                  s \in Statements(QUERY_PARAM_KEY)}
               \union
               {[api |-> "SqlStatement", symbol |-> QUERY_PARAM_PLACEHOLDER, statement |-> s] :
                  s \in Statements(QUERY_PARAM_PLACEHOLDER)}
    /\ wire = arg.statement
    /\ res = Ok(<<>>)
    /\ table = Null
    /\ debug_assertions \in BOOLEAN
    /\ outcome = "none"

\* query.bind(value)
call_bind ==
    /\ arg.api = "Query"
    /\ Len(res.val) < MaxBinds
    /\ \E value \in BindValues :
          /\ wire' = replace_bind_symbol(wire, SqlFormat(value))
          /\ res' = Ok(Append(res.val, SqlFormat(value)))
    /\ pc' = "bound"
    /\ UNCHANGED <<arg, table, debug_assertions, outcome>>

\* query.bind_raw(value)
call_bind_raw ==
    /\ arg.api = "Query"
    /\ Len(res.val) < MaxBinds
    /\ \E value \in BindTexts :
          /\ wire' = replace_bind_symbol(wire, value)
          /\ res' = Ok(Append(res.val, value))
    /\ pc' = "bound"
    /\ UNCHANGED <<arg, table, debug_assertions, outcome>>

\* statement.bind_str(value)
call_bind_str ==
    /\ arg.api = "SqlStatement"
    /\ Len(res.val) < MaxBinds
    /\ \E value \in BindTexts :
          /\ wire' = bind_str(wire, value)
          /\ res' = Ok(Append(res.val, value))
    /\ pc' = "bound"
    /\ UNCHANGED <<arg, table, debug_assertions, outcome>>

BindNext == call_bind \/ call_bind_raw \/ call_bind_str

SpecBind == BindInit /\ [][BindNext]_vars

\* the statement with its placeholders, left to right, replaced by the
\* values, one placeholder per value
RECURSIVE Filled(_, _, _)
Filled(statement, symbol, values) ==
    IF Len(values) = 0 \/ Len(statement) = 0 THEN statement
    ELSE IF StartsWith(statement, symbol)
    THEN values[1] \o Filled(Drop(statement, Len(symbol)), symbol, Tail(values))
    ELSE <<statement[1]>> \o Filled(Drop(statement, 1), symbol, values)

\* C30: after k binds the statement is the original with its first k
\* placeholders replaced by the k bound texts in call order
C30_BindLeftToRight ==
    pc = "bound" => wire = Filled(arg.statement, arg.symbol, res.val)

====
